---- MODULE Spec2Model ----
(***************************************************************************)
(* pushgen: push-style generators.  A generator drives a consumer (the     *)
(* sink); adaptors wrap child generators and pass a sink of their own to   *)
(* the child.  A closure that captures `&mut` state is modelled as a sink  *)
(* record that carries that state; `run` returns the generator after the   *)
(* call, the sink after the call and the GeneratorResult.                  *)
(*                                                                         *)
(* run_gen(gen, ctx, f) is gen.run(ErasedFnPointer::from_associated(ctx,   *)
(* f)): the adaptors that use it are modelled as running the child with    *)
(* the sink made of ctx and f.                                             *)
(***************************************************************************)
EXTENDS Integers, Sequences, FiniteSets, TLC

\* ------------------------------------------------------------------ bounds
\* longest first slice
MaxLen == 3
\* longest second slice (chain's second, zip's right)
MaxLenB == 2
\* largest take / skip budget
MaxN == 4
\* latest consumer call (within one run) at which the consumer answers Stop
MaxStop == 3
\* flatten: the outer slice's longest length and the inner slices' longest
MaxOuter == 2
MaxInner == 2
\* run calls made after the pipeline has returned Complete
MaxAfter == 2
\* calls (run or try_advance) in one behaviour of the second specification
MaxCalls == 3
\* sum / product: the longest slice folded, and the calls in one behaviour
MaxAccLen == 4
MaxAccCalls == 1
\* erased callbacks: the pointers made, the calls made through them, and the
\* largest parameter passed and largest field value of a context
MaxPtrs == 2
MaxPtrCalls == 2
MaxParam == 2
\* run calls in one behaviour: enough to stop on every value and then complete
MaxRuns == MaxLen + MaxLenB + 2 + MaxAfter

\* ------------------------------------------------------------ signal types
Stop == "Stop"
MoreValues == "MoreValues"
Stopped == "Stopped"
Complete == "Complete"

\* Option<T>
None == [some |-> FALSE]
Some(x) == [some |-> TRUE, v |-> x]

\* ---------------------------------------------------------- constructors
\* nrun is a ghost field: the number of run calls made on this slice generator
SliceGenerator(slice) == [t |-> "slice", slice |-> slice, index |-> 0, nrun |-> 0]
StoppingGen(stop_at, data) ==
    [t |-> "stopping", stop_at |-> stop_at, stopped_data |-> None,
     data |-> SliceGenerator(data)]
Take(source, amount) == [t |-> "take", source |-> source, amount_left |-> amount]
Skip(generator, amount) == [t |-> "skip", generator |-> generator, amount |-> amount]
Chain(first, second) ==
    [t |-> "chain", first |-> first, second |-> second, first_active |-> TRUE]
Cloned(source) == [t |-> "cloned", source |-> source]
BoxedGenerator(source) == [t |-> "boxed", source |-> source]
\* Either::Left(l) and Either::Right(r)
Left(l) == [t |-> "either", variant |-> "Left", left |-> l]
Right(r) == [t |-> "either", variant |-> "Right", right |-> r]
\* the random-access source with two cursors: index is the front cursor,
\* back the back cursor, the elements between them are still to be delivered
BiSliceGenerator(slice) ==
    [t |-> "bislice", slice |-> slice, index |-> 0, back |-> Len(slice)]
Map(source, transform) == [t |-> "map", source |-> source, transform |-> transform]
Filter(generator, predicate) ==
    [t |-> "filter", generator |-> generator, predicate |-> predicate]
FilterMap(source, transform) ==
    [t |-> "filter_map", source |-> source, transform |-> transform]
Zip(left, right) == [t |-> "zip", left |-> left, right |-> right]
Flatten(source) == [t |-> "flatten", source |-> source, current_generator |-> None]

\* ------------------------------------------------- the caller's functions
\* The transforms and predicates handed to map, filter and filter_map.
\* "triple" and "even" are those of the crate's example; "slice_new" is
\* |x| SliceGenerator::new(x) of flatten's tests; "succ" and "odd" are a
\* second transform and a second predicate, which accepts the first element.
Transform(f, x) ==
    CASE f = "triple" -> x * 3
      [] f = "succ" -> x + 1
      [] f = "slice_new" -> SliceGenerator(x)

Predicate(p, x) ==
    CASE p = "even" -> x % 2 = 0
      [] p = "odd" -> x % 2 = 1

\* a filter_map transform: Some(x * 3) for an even x, None for an odd one;
\* Some(x + 1) for an odd x, None for an even one
OptTransform(f, x) ==
    CASE f = "triple_even" -> IF x % 2 = 0 THEN Some(x * 3) ELSE None
      [] f = "succ_odd" -> IF x % 2 = 1 THEN Some(x + 1) ELSE None

\* IntoGenerator::into_gen of a value that is a generator already
IntoGen(x) == x

\* ------------------------------------------------------------------ sinks
\* The final consumer: it records what it is given, answers Stop on its
\* plan.at-th call of the run (never when plan.at = 0) and, once it has
\* answered Stop, answers Stop again (plan.sticky) or MoreValues to a call
\* that should not have been made.  stopAt is the call at which it first
\* answered Stop, late the calls made after that.
Consumer(plan) ==
    [t |-> "consumer", plan |-> plan, calls |-> 0, got |-> <<>>,
     stopAt |-> 0, late |-> 0]

ConsumerCall(s, x) ==
    LET n == s.calls + 1
        r == IF s.plan.at # 0 /\ (n = s.plan.at \/ (s.plan.sticky /\ n > s.plan.at))
             THEN Stop ELSE MoreValues
    IN  [sink |-> [s EXCEPT !.calls = n,
                            !.got = Append(@, x),
                            !.stopAt = IF @ = 0 /\ r = Stop THEN n ELSE @,
                            !.late = IF s.stopAt # 0 THEN @ + 1 ELSE @],
         res |-> r]

RECURSIVE Run(_, _), Call(_, _), SliceRun(_, _)

\* faulty variant: the closure counts but never forces the source to stop
TakeCall_NoForcedStop(s, x) ==
    LET c == Call(s.output, x)
    IN  [sink |-> [s EXCEPT !.amount_left = @ - 1, !.output = c.sink], res |-> c.res]

\* faulty variant: the budget is looked at before the value is counted, so the
\* value after the last one is taken from the source and dropped
TakeCall_StopsOneLate(s, x) ==
    IF s.amount_left = 0
    THEN [sink |-> s, res |-> Stop]
    ELSE LET c == Call(s.output, x)
         IN  [sink |-> [s EXCEPT !.amount_left = @ - 1, !.output = c.sink],
              res |-> c.res]

\* Take::run's closure over (&mut amount_left, output)
TakeCall(s, x) ==
    LET left == s.amount_left - 1
        c == Call(s.output, x)
    IN  [sink |-> [s EXCEPT !.amount_left = left, !.output = c.sink],
         res |-> IF left = 0 THEN Stop ELSE c.res]

\* faulty variant: the budget is compared before it is decremented
SkipCall_OffByOne(s, x) ==
    [sink |-> [s EXCEPT !.amount = @ - 1],
     res |-> IF s.amount # 0 THEN MoreValues ELSE Stop]

\* Skip::run's closure over &mut amount
SkipCall(s, x) ==
    LET left == s.amount - 1
    IN  [sink |-> [s EXCEPT !.amount = left],
         res |-> IF left # 0 THEN MoreValues ELSE Stop]

\* Cloned::run's closure: output.call(x.clone())
ClonedCall(s, x) ==
    LET c == Call(s.output, x)
    IN  [sink |-> [s EXCEPT !.output = c.sink], res |-> c.res]

\* faulty variant: the value is passed on as it came
MapCall_NoTransform(s, value) ==
    LET c == Call(s.output, value)
    IN  [sink |-> [s EXCEPT !.output = c.sink], res |-> c.res]

\* Map::run's closure over (&mut transform, output)
MapCall(s, value) ==
    LET c == Call(s.output, Transform(s.transform, value))
    IN  [sink |-> [s EXCEPT !.output = c.sink], res |-> c.res]

\* faulty variant: a rejected value stops the source
FilterCall_StopsOnReject(s, x) ==
    IF Predicate(s.predicate, x)
    THEN LET c == Call(s.output, x)
         IN  [sink |-> [s EXCEPT !.output = c.sink], res |-> c.res]
    ELSE [sink |-> s, res |-> Stop]

\* Filter::run's closure over (&mut predicate, &mut output)
FilterCall(s, x) ==
    IF Predicate(s.predicate, x)
    THEN LET c == Call(s.output, x)
         IN  [sink |-> [s EXCEPT !.output = c.sink], res |-> c.res]
    ELSE [sink |-> s, res |-> MoreValues]

\* FilterMap::run's closure over (&mut transform, &mut output)
FilterMapCall(s, x) ==
    LET y == OptTransform(s.transform, x)
    IN  IF y.some
        THEN LET c == Call(s.output, y.v)
             IN  [sink |-> [s EXCEPT !.output = c.sink], res |-> c.res]
        ELSE [sink |-> s, res |-> MoreValues]

\* Zip::run's inner closure over &mut right_value: keep the value, stop
ProbeCall(s, rv) == [sink |-> [s EXCEPT !.right_value = Some(rv)], res |-> Stop]

\* Zip::run's outer closure over (&mut right_result, &mut right, output)
ZipCall(s, left_value) ==
    LET r == Run(s.right, [t |-> "probe", right_value |-> None])
        s1 == [s EXCEPT !.right_result = r.res, !.right = r.gen]
    IN  IF r.sink.right_value.some
        THEN LET c == Call(s1.output, <<left_value, r.sink.right_value.v>>)
             IN  [sink |-> [s1 EXCEPT !.output = c.sink], res |-> c.res]
        ELSE [sink |-> s1, res |-> Stop]

\* faulty variant: the new inner generator is run but not kept
FlattenCall_NotStored(s, x) ==
    LET r == Run(IntoGen(x), s.output)
    IN  [sink |-> [s EXCEPT !.output = r.sink],
         res |-> IF r.res = Stopped THEN Stop ELSE MoreValues]

\* Flatten::run's closure over (&mut current_generator, output):
\* set_some stores the new inner generator and hands it back to be run
FlattenCall(s, x) ==
    LET r == Run(IntoGen(x), s.output)
    IN  [sink |-> [s EXCEPT !.current_generator = Some(r.gen), !.output = r.sink],
         res |-> IF r.res = Stopped THEN Stop ELSE MoreValues]

\* faulty variant: the value the pause falls on is not stored
StoppingCall_LosesPausedValue(s, x) ==
    LET old_stop_at == s.stop_at
        s1 == [s EXCEPT !.stop_at = @ - 1]
    IN  IF old_stop_at = 0
        THEN [sink |-> s1, res |-> Stop]
        ELSE LET c == Call(s1.output, x)
             IN  [sink |-> [s1 EXCEPT !.output = c.sink], res |-> c.res]

\* StoppingGen::run's closure over (&mut stopped_data, &mut stop_at, output)
StoppingCall(s, x) ==
    LET old_stop_at == s.stop_at
        s1 == [s EXCEPT !.stop_at = @ - 1]
    IN  IF old_stop_at = 0
        THEN [sink |-> [s1 EXCEPT !.stored_stop = Some(x)], res |-> Stop]
        ELSE LET c == Call(s1.output, x)
             IN  [sink |-> [s1 EXCEPT !.output = c.sink], res |-> c.res]

\* try_advance's closure over &mut amount_left.  amount_left is a usize: a
\* call made with amount_left = 0 takes it below 0, which panics in a build
\* with overflow checks and wraps in one without; the integer kept here is
\* the wrapped value modulo 2^64, and `wrapped` records that it happened.
AdvanceCall(s, x) ==
    LET left == s.amount_left - 1
    IN  [sink |-> [s EXCEPT !.amount_left = left,
                            !.wrapped = @ \/ s.amount_left = 0],
         res |-> IF left = 0 THEN Stop ELSE MoreValues]

\* The integer kinds sum and product are instantiated for, at the narrowest
\* width of the list: "i8" is the plain signed kind, "wrapping" is
\* Wrapping<u8>.
Width == 8
Modulus == 2^Width
InRange(kind, v) ==
    IF kind = "i8" THEN -(Modulus \div 2) <= v /\ v < Modulus \div 2
    ELSE 0 <= v /\ v < Modulus
\* faulty variant: arithmetic that saturates at the ends of the range
Wrap_Saturates(kind, v) ==
    IF InRange(kind, v) THEN v
    ELSE IF v < 0 THEN (IF kind = "i8" THEN -(Modulus \div 2) ELSE 0)
    ELSE (IF kind = "i8" THEN Modulus \div 2 - 1 ELSE Modulus - 1)

\* the value of the kind that is congruent to v modulo 2^Width
Wrap(kind, v) ==
    IF kind = "i8" THEN ((v + Modulus \div 2) % Modulus) - Modulus \div 2
    ELSE v % Modulus

\* the closures of sum (ret += x) and product (ret *= x) over &mut ret, for an
\* element given by value or by reference.  += and *= of a plain integer
\* kind overflow when the result leaves the kind's range: a panic in a build
\* with overflow checks, the wrapped value otherwise (kept here, with
\* `overflow` recording that it happened); those of Wrapping wrap.
AccumCall(s, x) ==
    LET raw == IF s.op = "sum" THEN s.ret + x ELSE s.ret * x
    IN  [sink |-> [s EXCEPT !.ret = Wrap(s.kind, raw),
                            !.overflow = @ \/ (s.kind = "i8" /\ ~InRange(s.kind, raw)),
                            !.got = Append(@, x)],
         res |-> MoreValues]

\* ErasedFnPointer::call: dispatch to the function the pointer was made from,
\* on the context it was made with
Call(s, x) ==
    CASE s.t = "consumer" -> ConsumerCall(s, x)
      [] s.t = "take" -> TakeCall(s, x)
      [] s.t = "skip" -> SkipCall(s, x)
      [] s.t = "cloned" -> ClonedCall(s, x)
      [] s.t = "map" -> MapCall(s, x)
      [] s.t = "filter" -> FilterCall(s, x)
      [] s.t = "filter_map" -> FilterMapCall(s, x)
      [] s.t = "probe" -> ProbeCall(s, x)
      [] s.t = "zip" -> ZipCall(s, x)
      [] s.t = "flatten" -> FlattenCall(s, x)
      [] s.t = "stopping" -> StoppingCall(s, x)
      [] s.t = "advance" -> AdvanceCall(s, x)
      [] s.t = "accum" -> AccumCall(s, x)

\* ------------------------------------------------------------- generators
\* faulty variant: the index is not advanced when the consumer stops
SliceRun_NoAdvanceOnStop(g, sink) ==
    IF g.index < Len(g.slice)
    THEN LET c == Call(sink, g.slice[g.index + 1])
         IN  IF c.res = Stop
             THEN [gen |-> g, sink |-> c.sink, res |-> Stopped]
             ELSE SliceRun([g EXCEPT !.index = @ + 1], c.sink)
    ELSE [gen |-> g, sink |-> sink, res |-> Complete]

\* faulty variant: the index is advanced twice when the consumer stops
SliceRun_AdvancesTwiceOnStop(g, sink) ==
    IF g.index < Len(g.slice)
    THEN LET c == Call(sink, g.slice[g.index + 1])
             g1 == [g EXCEPT !.index = @ + 1]
         IN  IF c.res = Stop
             THEN [gen |-> [g1 EXCEPT !.index = @ + 1], sink |-> c.sink, res |-> Stopped]
             ELSE SliceRun(g1, c.sink)
    ELSE [gen |-> g, sink |-> sink, res |-> Complete]

\* SliceGenerator::run's loop, from the current index
SliceRun(g, sink) ==
    IF g.index < Len(g.slice)
    THEN LET c == Call(sink, g.slice[g.index + 1])
             g1 == [g EXCEPT !.index = @ + 1]
         IN  IF c.res = Stop
             THEN [gen |-> g1, sink |-> c.sink, res |-> Stopped]
             ELSE SliceRun(g1, c.sink)
    ELSE [gen |-> g, sink |-> sink, res |-> Complete]

SliceGeneratorRun(g, sink) == SliceRun([g EXCEPT !.nrun = @ + 1], sink)

RECURSIVE BiSliceRun(_, _), BiSliceRunBack(_, _), RunBack(_, _)
RECURSIVE BiSliceRunBack_IgnoresFront(_, _)

\* forward run of the two-cursor source: from the front cursor upward, until
\* the cursors meet
BiSliceRun(g, sink) ==
    IF g.index < g.back
    THEN LET c == Call(sink, g.slice[g.index + 1])
             g1 == [g EXCEPT !.index = @ + 1]
         IN  IF c.res = Stop
             THEN [gen |-> g1, sink |-> c.sink, res |-> Stopped]
             ELSE BiSliceRun(g1, c.sink)
    ELSE [gen |-> g, sink |-> sink, res |-> Complete]

\* faulty variant: run_back goes down to the start of the slice
BiSliceRunBack_IgnoresFront(g, sink) ==
    IF 0 < g.back
    THEN LET c == Call(sink, g.slice[g.back])
             g1 == [g EXCEPT !.back = @ - 1]
         IN  IF c.res = Stop
             THEN [gen |-> g1, sink |-> c.sink, res |-> Stopped]
             ELSE BiSliceRunBack_IgnoresFront(g1, c.sink)
    ELSE [gen |-> g, sink |-> sink, res |-> Complete]

\* run_back of the two-cursor source: from the back cursor downward, until
\* the cursors meet
BiSliceRunBack(g, sink) ==
    IF g.index < g.back
    THEN LET c == Call(sink, g.slice[g.back])
             g1 == [g EXCEPT !.back = @ - 1]
         IN  IF c.res = Stop
             THEN [gen |-> g1, sink |-> c.sink, res |-> Stopped]
             ELSE BiSliceRunBack(g1, c.sink)
    ELSE [gen |-> g, sink |-> sink, res |-> Complete]

\* faulty variant: the closure counts on a copy of amount_left, which is not written back
TakeRunSource_BudgetByValue(g, output) ==
    LET r == Run(g.source,
                 [t |-> "take", amount_left |-> g.amount_left, output |-> output])
        g1 == [g EXCEPT !.source = r.gen]
    IN  IF r.res = Complete
        THEN [gen |-> [g1 EXCEPT !.amount_left = 0], sink |-> r.sink.output,
              res |-> Complete]
        ELSE IF r.sink.amount_left = 0
        THEN [gen |-> [g1 EXCEPT !.amount_left = 0], sink |-> r.sink.output,
              res |-> Complete]
        ELSE [gen |-> g1, sink |-> r.sink.output, res |-> r.res]

\* Take::run with budget left: run the source with the counting closure
TakeRunSource(g, output) ==
    LET r == Run(g.source,
                 [t |-> "take", amount_left |-> g.amount_left, output |-> output])
        g1 == [g EXCEPT !.source = r.gen, !.amount_left = r.sink.amount_left]
    IN  IF r.res = Complete
        THEN [gen |-> [g1 EXCEPT !.amount_left = 0], sink |-> r.sink.output,
              res |-> Complete]
        ELSE IF g1.amount_left = 0
        THEN [gen |-> g1, sink |-> r.sink.output, res |-> Complete]
        ELSE [gen |-> g1, sink |-> r.sink.output, res |-> r.res]

\* faulty variant: with no budget left the source is still run, and its value dropped
TakeRun_RunsSourceAtZero(g, output) ==
    IF g.amount_left > 0
    THEN TakeRunSource(g, output)
    ELSE LET r == Run(g.source, [t |-> "probe", right_value |-> None])
         IN  [gen |-> [g EXCEPT !.source = r.gen], sink |-> output, res |-> Complete]

\* faulty variant: the budget is not looked at before the source is run
TakeRun_NoGuard(g, output) == TakeRunSource(g, output)

TakeRun(g, output) ==
    IF g.amount_left > 0
    THEN TakeRunSource(g, output)
    ELSE [gen |-> g, sink |-> output, res |-> Complete]

\* faulty variant: the closure counts on a copy of amount, which is not written back
SkipRun_ForgetsBudget(g, output) ==
    LET pass(g1) ==
            LET r == Run(g1.generator, output)
            IN  [gen |-> [g1 EXCEPT !.generator = r.gen], sink |-> r.sink, res |-> r.res]
    IN  IF g.amount > 0
        THEN LET skip_run == Run(g.generator, [t |-> "skip", amount |-> g.amount])
                 g1 == [g EXCEPT !.generator = skip_run.gen]
             IN  IF skip_run.res = Complete
                 THEN [gen |-> g1, sink |-> output, res |-> Complete]
                 ELSE IF skip_run.sink.amount > 0
                 THEN [gen |-> g1, sink |-> output, res |-> Stopped]
                 ELSE pass([g1 EXCEPT !.amount = 0])
        ELSE pass(g)

SkipRun(g, output) ==
    LET pass(g1) ==
            LET r == Run(g1.generator, output)
            IN  [gen |-> [g1 EXCEPT !.generator = r.gen], sink |-> r.sink, res |-> r.res]
    IN  IF g.amount > 0
        THEN LET skip_run == Run(g.generator, [t |-> "skip", amount |-> g.amount])
                 g1 == [g EXCEPT !.generator = skip_run.gen,
                                 !.amount = skip_run.sink.amount]
             IN  IF skip_run.res = Complete
                 THEN [gen |-> g1, sink |-> output, res |-> Complete]
                 ELSE IF g1.amount > 0
                 THEN [gen |-> g1, sink |-> output, res |-> Stopped]
                 ELSE pass(g1)
        ELSE pass(g)

\* faulty variant: first_active is cleared before first's result is looked at
ChainRun_SwitchOnStop(g, output) ==
    LET second(g1, out1) ==
            LET r == Run(g1.second, out1)
            IN  [gen |-> [g1 EXCEPT !.second = r.gen], sink |-> r.sink, res |-> r.res]
    IN  IF g.first_active
        THEN LET r == Run(g.first, output)
                 g1 == [g EXCEPT !.first = r.gen, !.first_active = FALSE]
             IN  IF r.res = Stopped
                 THEN [gen |-> g1, sink |-> r.sink, res |-> Stopped]
                 ELSE second(g1, r.sink)
        ELSE second(g, output)

\* faulty variant: first_active is never cleared
ChainRun_KeepsFirstActive(g, output) ==
    LET second(g1, out1) ==
            LET r == Run(g1.second, out1)
            IN  [gen |-> [g1 EXCEPT !.second = r.gen], sink |-> r.sink, res |-> r.res]
    IN  IF g.first_active
        THEN LET r == Run(g.first, output)
                 g1 == [g EXCEPT !.first = r.gen]
             IN  IF r.res = Stopped
                 THEN [gen |-> g1, sink |-> r.sink, res |-> Stopped]
                 ELSE second(g1, r.sink)
        ELSE second(g, output)

ChainRun(g, output) ==
    LET second(g1, out1) ==
            LET r == Run(g1.second, out1)
            IN  [gen |-> [g1 EXCEPT !.second = r.gen], sink |-> r.sink, res |-> r.res]
    IN  IF g.first_active
        THEN LET r == Run(g.first, output)
                 g1 == [g EXCEPT !.first = r.gen]
             IN  IF r.res = Stopped
                 THEN [gen |-> g1, sink |-> r.sink, res |-> Stopped]
                 ELSE second([g1 EXCEPT !.first_active = FALSE], r.sink)
        ELSE second(g, output)

ClonedRun(g, output) ==
    LET r == Run(g.source, [t |-> "cloned", output |-> output])
    IN  [gen |-> [g EXCEPT !.source = r.gen], sink |-> r.sink.output, res |-> r.res]

\* faulty variant: a paused source is run once more within the call
BoxedGeneratorRun_RunsTwice(g, output) ==
    LET r1 == Run(g.source, output)
        r == IF r1.res = Stopped THEN Run(r1.gen, r1.sink) ELSE r1
    IN  [gen |-> [g EXCEPT !.source = r.gen], sink |-> r.sink, res |-> r.res]

BoxedGeneratorRun(g, output) ==
    LET r == Run(g.source, output)
    IN  [gen |-> [g EXCEPT !.source = r.gen], sink |-> r.sink, res |-> r.res]

MapRun(g, output) ==
    LET r == Run(g.source, [t |-> "map", transform |-> g.transform, output |-> output])
    IN  [gen |-> [g EXCEPT !.source = r.gen], sink |-> r.sink.output, res |-> r.res]

FilterRun(g, output) ==
    LET r == Run(g.generator,
                 [t |-> "filter", predicate |-> g.predicate, output |-> output])
    IN  [gen |-> [g EXCEPT !.generator = r.gen], sink |-> r.sink.output, res |-> r.res]

FilterMapRun(g, output) ==
    LET r == Run(g.source,
                 [t |-> "filter_map", transform |-> g.transform, output |-> output])
    IN  [gen |-> [g EXCEPT !.source = r.gen], sink |-> r.sink.output, res |-> r.res]

\* faulty variant: Complete only when both sides have completed
ZipRun_BothComplete(g, output) ==
    LET r == Run(g.left, [t |-> "zip", right_result |-> Stopped, right |-> g.right,
                          output |-> output])
        left_result == r.res
        right_result == r.sink.right_result
    IN  [gen |-> [g EXCEPT !.left = r.gen, !.right = r.sink.right],
         sink |-> r.sink.output,
         res |-> IF left_result = Complete /\ right_result = Complete
                 THEN Complete ELSE Stopped]

ZipRun(g, output) ==
    LET r == Run(g.left, [t |-> "zip", right_result |-> Stopped, right |-> g.right,
                          output |-> output])
        left_result == r.res
        right_result == r.sink.right_result
    IN  [gen |-> [g EXCEPT !.left = r.gen, !.right = r.sink.right],
         sink |-> r.sink.output,
         res |-> IF left_result = Complete \/ right_result = Complete
                 THEN Complete ELSE Stopped]

\* faulty variant: a paused inner generator is not resumed
FlattenRun_NoResume(g, output) ==
    LET r == Run(g.source,
                 [t |-> "flatten", current_generator |-> g.current_generator,
                  output |-> output])
    IN  [gen |-> [g EXCEPT !.source = r.gen,
                           !.current_generator = r.sink.current_generator],
         sink |-> r.sink.output, res |-> r.res]

FlattenRun(g, output) ==
    LET resumed == IF g.current_generator.some
                   THEN Run(g.current_generator.v, output)
                   ELSE [gen |-> None, sink |-> output, res |-> Complete]
        g1 == IF g.current_generator.some
              THEN [g EXCEPT !.current_generator = Some(resumed.gen)]
              ELSE g
    IN  IF g.current_generator.some /\ resumed.res = Stopped
        THEN [gen |-> g1, sink |-> resumed.sink, res |-> Stopped]
        ELSE LET r == Run(g1.source,
                          [t |-> "flatten", current_generator |-> g1.current_generator,
                           output |-> resumed.sink])
             IN  [gen |-> [g1 EXCEPT !.source = r.gen,
                                     !.current_generator = r.sink.current_generator],
                  sink |-> r.sink.output, res |-> r.res]

\* faulty variant: the pause counter is left at 0 when the generator pauses
StoppingGenRun_KeepsPausing(g, output) ==
    IF g.stop_at = 0
    THEN [gen |-> g, sink |-> output, res |-> Stopped]
    ELSE LET first == IF g.stopped_data.some
                      THEN Call(output, g.stopped_data.v)
                      ELSE [sink |-> output, res |-> MoreValues]
             g1 == [g EXCEPT !.stopped_data = None]
         IN  IF g.stopped_data.some /\ first.res = Stop
             THEN [gen |-> g1, sink |-> first.sink, res |-> Stopped]
             ELSE LET r == Run(g1.data,
                               [t |-> "stopping", stored_stop |-> g1.stopped_data,
                                stop_at |-> g1.stop_at, output |-> first.sink])
                  IN  [gen |-> [g1 EXCEPT !.data = r.gen,
                                          !.stopped_data = r.sink.stored_stop,
                                          !.stop_at = IF r.res = Complete
                                                      THEN -1 ELSE r.sink.stop_at],
                       sink |-> r.sink.output, res |-> r.res]

StoppingGenRun(g, output) ==
    IF g.stop_at = 0
    THEN [gen |-> [g EXCEPT !.stop_at = @ - 1], sink |-> output, res |-> Stopped]
    ELSE LET first == IF g.stopped_data.some
                      THEN Call(output, g.stopped_data.v)
                      ELSE [sink |-> output, res |-> MoreValues]
             g1 == [g EXCEPT !.stopped_data = None]
         IN  IF g.stopped_data.some /\ first.res = Stop
             THEN [gen |-> g1, sink |-> first.sink, res |-> Stopped]
             ELSE LET r == Run(g1.data,
                               [t |-> "stopping", stored_stop |-> g1.stopped_data,
                                stop_at |-> g1.stop_at, output |-> first.sink])
                  IN  [gen |-> [g1 EXCEPT !.data = r.gen,
                                          !.stopped_data = r.sink.stored_stop,
                                          !.stop_at = IF r.res = Complete
                                                      THEN -1 ELSE r.sink.stop_at],
                       sink |-> r.sink.output, res |-> r.res]

\* faulty variant: the Right arm drops the result of right.run
EitherRun_RightDropsResult(g, output) ==
    IF g.variant = "Left"
    THEN LET r == Run(g.left, output)
         IN  [gen |-> [g EXCEPT !.left = r.gen], sink |-> r.sink, res |-> r.res]
    ELSE LET r == Run(g.right, output)
         IN  [gen |-> [g EXCEPT !.right = r.gen], sink |-> r.sink, res |-> Complete]

\* Either's run: match self { Left(left) => left.run(output),
\*                            Right(right) => right.run(output) }
EitherRun(g, output) ==
    IF g.variant = "Left"
    THEN LET r == Run(g.left, output)
         IN  [gen |-> [g EXCEPT !.left = r.gen], sink |-> r.sink, res |-> r.res]
    ELSE LET r == Run(g.right, output)
         IN  [gen |-> [g EXCEPT !.right = r.gen], sink |-> r.sink, res |-> r.res]

\* Either's run_back
EitherRunBack(g, output) ==
    IF g.variant = "Left"
    THEN LET r == RunBack(g.left, output)
         IN  [gen |-> [g EXCEPT !.left = r.gen], sink |-> r.sink, res |-> r.res]
    ELSE LET r == RunBack(g.right, output)
         IN  [gen |-> [g EXCEPT !.right = r.gen], sink |-> r.sink, res |-> r.res]

\* ReverseGenerator::run_back, dispatched on the generator's type
RunBack(g, sink) ==
    CASE g.t = "bislice" -> BiSliceRunBack(g, sink)
      [] g.t = "either" -> EitherRunBack(g, sink)

\* Generator::run, dispatched on the generator's type
Run(g, sink) ==
    CASE g.t = "slice" -> SliceGeneratorRun(g, sink)
      [] g.t = "take" -> TakeRun(g, sink)
      [] g.t = "skip" -> SkipRun(g, sink)
      [] g.t = "chain" -> ChainRun(g, sink)
      [] g.t = "cloned" -> ClonedRun(g, sink)
      [] g.t = "boxed" -> BoxedGeneratorRun(g, sink)
      [] g.t = "map" -> MapRun(g, sink)
      [] g.t = "filter" -> FilterRun(g, sink)
      [] g.t = "filter_map" -> FilterMapRun(g, sink)
      [] g.t = "zip" -> ZipRun(g, sink)
      [] g.t = "flatten" -> FlattenRun(g, sink)
      [] g.t = "stopping" -> StoppingGenRun(g, sink)
      [] g.t = "bislice" -> BiSliceRun(g, sink)
      [] g.t = "either" -> EitherRun(g, sink)

\* Generator::try_advance, the default implementation
TryAdvance(g, n) ==
    LET amount_to_advance == n
        r == Run(g, [t |-> "advance", amount_left |-> amount_to_advance,
                     wrapped |-> FALSE])
    IN  [gen |-> r.gen, count |-> amount_to_advance - r.sink.amount_left,
         res |-> r.res, wrapped |-> r.sink.wrapped]

\* ReverseGenerator::try_advance_back, the default implementation
TryAdvanceBack(g, n) ==
    LET amount_to_advance == n
        r == RunBack(g, [t |-> "advance", amount_left |-> amount_to_advance,
                         wrapped |-> FALSE])
    IN  [gen |-> r.gen, count |-> amount_to_advance - r.sink.amount_left,
         res |-> r.res, wrapped |-> r.sink.wrapped]

RECURSIVE TryAdvanceOf(_, _), TryAdvanceBackOf(_, _)

\* Either's try_advance: the populated variant's try_advance
EitherTryAdvance(g, n) ==
    IF g.variant = "Left"
    THEN LET r == TryAdvanceOf(g.left, n) IN [r EXCEPT !.gen = [g EXCEPT !.left = r.gen]]
    ELSE LET r == TryAdvanceOf(g.right, n) IN [r EXCEPT !.gen = [g EXCEPT !.right = r.gen]]

\* Either's try_advance_back
EitherTryAdvanceBack(g, n) ==
    IF g.variant = "Left"
    THEN LET r == TryAdvanceBackOf(g.left, n) IN [r EXCEPT !.gen = [g EXCEPT !.left = r.gen]]
    ELSE LET r == TryAdvanceBackOf(g.right, n) IN [r EXCEPT !.gen = [g EXCEPT !.right = r.gen]]

\* try_advance and try_advance_back as the generator's type implements
\* them: Either overrides them, every other type has the default
TryAdvanceOf(g, n) ==
    IF g.t = "either" THEN EitherTryAdvance(g, n) ELSE TryAdvance(g, n)

TryAdvanceBackOf(g, n) ==
    IF g.t = "either" THEN EitherTryAdvanceBack(g, n) ELSE TryAdvanceBack(g, n)

\* the closure state sum and product start from: $zero or $one in ret
Accum(op, kind, init) ==
    [t |-> "accum", op |-> op, kind |-> kind, ret |-> init, overflow |-> FALSE,
     got |-> <<>>]

\* faulty variant: the generator is run again when it has paused
Sum_Resumes(kind, g) ==
    LET r1 == Run(g, Accum("sum", kind, 0))
        r == IF r1.res = Stopped THEN Run(r1.gen, r1.sink) ELSE r1
    IN  [gen |-> r.gen, ret |-> r.sink.ret, res |-> r.res,
         overflow |-> r.sink.overflow, got |-> r.sink.got]

\* faulty variant: the product starts from $zero
Product_FromZero(kind, g) ==
    LET r == Run(g, Accum("product", kind, 0))
    IN  [gen |-> r.gen, ret |-> r.sink.ret, res |-> r.res,
         overflow |-> r.sink.overflow, got |-> r.sink.got]

\* Sum::sum: one run call, its result dropped, ret returned
Sum(kind, g) ==
    LET r == Run(g, Accum("sum", kind, 0))
    IN  [gen |-> r.gen, ret |-> r.sink.ret, res |-> r.res,
         overflow |-> r.sink.overflow, got |-> r.sink.got]

\* Product::product
Product(kind, g) ==
    LET r == Run(g, Accum("product", kind, 1))
    IN  [gen |-> r.gen, ret |-> r.sink.ret, res |-> r.res,
         overflow |-> r.sink.overflow, got |-> r.sink.got]

\* ---------------------------------------------------------------- inputs
Iota(base, n) == [i \in 1..n |-> base + i]
SlicesA == {Iota(0, n) : n \in 0..MaxLen}
SlicesB == {Iota(10, n) : n \in 0..MaxLenB}
SourcesA == {SliceGenerator(s) : s \in SlicesA}
SourcesB == {SliceGenerator(s) : s \in SlicesB}
\* a StoppingGen that pauses on its own at any position, or never
Stoppers == {StoppingGen(k, s) : k \in -1..MaxLen, s \in SlicesA}

\* a slice of slices, the inner ones of any lengths, numbered through
RECURSIVE NestedFrom(_, _)
NestedFrom(base, lens) ==
    IF lens = <<>> THEN <<>>
    ELSE <<Iota(base, Head(lens))>> \o NestedFrom(base + Head(lens), Tail(lens))
Nested == {NestedFrom(0, lens) :
             lens \in UNION {[1..no -> 0..MaxInner] : no \in 0..MaxOuter}}

Pipelines ==
    SourcesA
    \cup Stoppers
    \cup {Map(s, f) : s \in SourcesA, f \in {"triple", "succ"}}
    \cup {Filter(s, p) : s \in SourcesA \cup Stoppers, p \in {"even", "odd"}}
    \cup {FilterMap(s, f) : s \in SourcesA \cup Stoppers,
                             f \in {"triple_even", "succ_odd"}}
    \cup {Zip(a, b) : a \in SourcesA, b \in SourcesB \cup SourcesA}
    \cup {Zip(a, b) : a \in SourcesB, b \in Stoppers}
    \cup {Flatten(Map(SliceGenerator(d), "slice_new")) : d \in Nested}
    \cup {Flatten(Map(StoppingGen(k, d), "slice_new")) :
             k \in -1..MaxOuter, d \in Nested}
    \cup {Take(s, n) : s \in Stoppers, n \in 0..MaxN}
    \cup {Skip(s, n) : s \in Stoppers, n \in 0..MaxN}
    \cup {Cloned(s) : s \in SourcesA}
    \cup {BoxedGenerator(s) : s \in SourcesA \cup Stoppers}
    \cup {Take(s, n) : s \in SourcesA, n \in 0..MaxN}
    \cup {Skip(s, n) : s \in SourcesA, n \in 0..MaxN}
    \cup {Chain(a, b) : a \in SourcesA, b \in SourcesB}
    \cup {Chain(Take(a, n), b) : a \in SourcesA, b \in SourcesB, n \in 1..MaxN}

Plans ==
    {[at |-> 0, sticky |-> FALSE]}
    \cup {[at |-> k, sticky |-> s] : k \in 1..MaxStop, s \in BOOLEAN}

\* ----------------------------------------------------------------- state
VARIABLES
    gen0,   \* the pipeline as constructed
    gen,    \* the pipeline now
    out,    \* every value the consumer has been given, over all run calls
    log     \* one entry per run call made so far

vars == <<gen0, gen, out, log>>

Init ==
    /\ gen0 \in Pipelines
    /\ gen = gen0
    /\ out = <<>>
    /\ log = <<>>

Completed == {i \in 1..Len(log) : log[i].res = Complete}

\* One run call on the pipeline with a consumer that follows `plan`.
DoRun(plan) ==
    /\ Len(log) < MaxRuns
    /\ Cardinality(Completed) <= MaxAfter
    /\ LET r == Run(gen, Consumer(plan))
       IN  /\ gen' = r.gen
           /\ out' = out \o r.sink.got
           /\ log' = Append(log, [pre |-> gen, res |-> r.res, got |-> r.sink.got,
                                  stopAt |-> r.sink.stopAt, late |-> r.sink.late])
    /\ UNCHANGED gen0

Next == \E plan \in Plans : DoRun(plan)

Spec == Init /\ [][Next]_vars

\* A second specification: run calls and try_advance calls in any order.
Panic == "Panic"
Panicked == \E i \in 1..Len(log) : log[i].res = Panic

\* One try_advance(n) call.  In a build with overflow checks (checked) a
\* closure call that takes amount_left below 0 panics: the call does not
\* return and the generator is not used again.
DoTryAdvance(n, checked) ==
    /\ Len(log) < MaxCalls
    /\ Cardinality(Completed) <= MaxAfter
    /\ ~Panicked
    /\ LET r == TryAdvanceOf(gen, n)
       IN  IF checked /\ r.wrapped
           THEN /\ gen' = gen
                /\ log' = Append(log, [pre |-> gen, res |-> Panic, got |-> <<>>,
                                       stopAt |-> 0, late |-> 0, n |-> n, count |-> 0])
           ELSE /\ gen' = r.gen
                /\ log' = Append(log, [pre |-> gen, res |-> r.res, got |-> <<>>,
                                       stopAt |-> 0, late |-> 0, n |-> n,
                                       count |-> r.count])
    /\ UNCHANGED <<gen0, out>>

NextAdvance ==
    \/ \E plan \in Plans : Len(log) < MaxCalls /\ ~Panicked /\ DoRun(plan)
    \/ \E n \in 1..MaxN, checked \in BOOLEAN : DoTryAdvance(n, checked)

SpecAdvance == Init /\ [][NextAdvance]_vars

\* A third specification: sum and product over generators of integers.
\* The elements are small numbers and the largest of i8 and of u8.
AccValues == {1, 2, 3, 4, Modulus \div 2 - 1, Modulus - 1}
AccSlices == UNION {[1..n -> AccValues] : n \in 0..MaxAccLen}
\* by-reference generators (SliceGenerator), by-value generators (Cloned of
\* one) and generators that pause on their own
AccPipelines ==
    {SliceGenerator(s) : s \in AccSlices}
    \cup {Cloned(SliceGenerator(s)) : s \in AccSlices}
    \cup {StoppingGen(k, s) : k \in 0..MaxLenB, s \in AccSlices}

InitAccum ==
    /\ gen0 \in AccPipelines
    /\ gen = gen0
    /\ out = <<>>
    /\ log = <<>>

\* the slice under a generator of AccPipelines
AccData(g) ==
    IF g.t = "slice" THEN g.slice
    ELSE IF g.t = "cloned" THEN g.source.slice ELSE g.data.slice

\* the generator's Output is of the kind summed
TypeOk(kind, g) == \A i \in 1..Len(AccData(g)) : InRange(kind, AccData(g)[i])

\* what a call of sum or product leaves behind: with overflow checks
\* (checked) an overflowing += or *= panics and the call does not return
Accumulated(op, kind, checked, r) ==
    /\ Len(log) < MaxAccCalls
    /\ ~Panicked
    /\ TypeOk(kind, gen)
    /\ IF checked /\ r.overflow
       THEN /\ gen' = gen
            /\ log' = Append(log, [pre |-> gen, res |-> Panic, got |-> <<>>,
                                   stopAt |-> 0, late |-> 0, op |-> op,
                                   kind |-> kind, ret |-> 0])
       ELSE /\ gen' = r.gen
            /\ log' = Append(log, [pre |-> gen, res |-> r.res, got |-> r.got,
                                   stopAt |-> 0, late |-> 0, op |-> op,
                                   kind |-> kind, ret |-> r.ret])
    /\ UNCHANGED <<gen0, out>>

DoSum(kind, checked) == Accumulated("sum", kind, checked, Sum(kind, gen))

DoProduct(kind, checked) == Accumulated("product", kind, checked, Product(kind, gen))

NextAccum ==
    \/ \E kind \in {"i8", "wrapping"}, checked \in BOOLEAN : DoSum(kind, checked)
    \/ \E kind \in {"i8", "wrapping"}, checked \in BOOLEAN : DoProduct(kind, checked)

SpecAccum == InitAccum /\ [][NextAccum]_vars

\* A fourth specification: sources that are consumed from both ends, and
\* Either over two generators, under run, run_back, try_advance and
\* try_advance_back calls in any order.
BackSlices == {Iota(0, n) : n \in 0..MaxLen}
\* calls in one behaviour: enough to take every element singly and then get
\* Complete from both ends
MaxBackCalls == MaxLen + 2
BiSources == {BiSliceGenerator(s) : s \in BackSlices}
\* whether the generator's type implements ReverseGenerator
RECURSIVE Reversible(_)
Reversible(g) ==
    CASE g.t = "bislice" -> TRUE
      [] g.t = "either" ->
             Reversible(IF g.variant = "Left" THEN g.left ELSE g.right)
      [] OTHER -> FALSE

BackPipelines ==
    BiSources
    \cup {Left(g) : g \in BiSources} \cup {Right(g) : g \in BiSources}
    \cup {Left(g) : g \in SourcesA} \cup {Right(g) : g \in SourcesA}
    \cup {Right(Take(g, n)) : g \in SourcesA, n \in 1..MaxLenB}
    \cup {Left(Right(g)) : g \in BiSources}

InitBack ==
    /\ gen0 \in BackPipelines
    /\ gen = gen0
    /\ out = <<>>
    /\ log = <<>>

\* One run_back call on the pipeline with a consumer that follows `plan`.
DoRunBack(plan) ==
    /\ Len(log) < MaxRuns
    /\ Cardinality(Completed) <= MaxAfter
    /\ Reversible(gen)
    /\ LET r == RunBack(gen, Consumer(plan))
       IN  /\ gen' = r.gen
           /\ out' = out \o r.sink.got
           /\ log' = Append(log, [pre |-> gen, res |-> r.res, got |-> r.sink.got,
                                  stopAt |-> r.sink.stopAt, late |-> r.sink.late,
                                  back |-> TRUE])
    /\ UNCHANGED gen0

\* try_advance_back(n) has come to r: it panicked, or it returned r's count
\* and result and left the generator as r has it
AdvancedBack(r, n, checked) ==
    IF checked /\ r.wrapped
    THEN /\ gen' = gen
         /\ log' = Append(log, [pre |-> gen, res |-> Panic, got |-> <<>>,
                                stopAt |-> 0, late |-> 0, n |-> n, count |-> 0,
                                back |-> TRUE])
    ELSE /\ gen' = r.gen
         /\ log' = Append(log, [pre |-> gen, res |-> r.res, got |-> <<>>,
                                stopAt |-> 0, late |-> 0, n |-> n,
                                count |-> r.count, back |-> TRUE])

\* One try_advance_back(n) call.
DoTryAdvanceBack(n, checked) ==
    /\ Len(log) < MaxCalls
    /\ Cardinality(Completed) <= MaxAfter
    /\ ~Panicked
    /\ Reversible(gen)
    /\ AdvancedBack(TryAdvanceBackOf(gen, n), n, checked)
    /\ UNCHANGED <<gen0, out>>

NextBack ==
    \/ \E plan \in Plans : Len(log) < MaxBackCalls /\ ~Panicked /\ DoRun(plan)
    \/ \E plan \in Plans : Len(log) < MaxBackCalls /\ ~Panicked /\ DoRunBack(plan)
    \/ \E n \in 1..MaxLenB, checked \in BOOLEAN : DoTryAdvance(n, checked)
    \/ \E n \in 1..MaxLenB, checked \in BOOLEAN : DoTryAdvanceBack(n, checked)

SpecBack == InitBack /\ [][NextBack]_vars

\* A fifth specification: the driver that calls run again as long as the
\* previous call returned Stopped, with any consumer, and does not give up.
Drive(plan) ==
    /\ IF log = <<>> THEN TRUE ELSE log[Len(log)].res = Stopped
    /\ DoRun(plan)

NextDrive == \E plan \in Plans : Drive(plan)

\* whether the driver has a call to make: ENABLED <<NextDrive>>_vars written
\* out (a call always adds to the log)
DriverCanCall ==
    /\ IF log = <<>> THEN TRUE ELSE log[Len(log)].res = Stopped
    /\ Len(log) < MaxRuns
    /\ Cardinality(Completed) <= MaxAfter

\* weak fairness of the driver's step, WF_vars(NextDrive), with its ENABLED
\* written out: a driver that has a call to make makes it
DriverFairness == []<>(~DriverCanCall) \/ []<><<NextDrive>>_vars

SpecDrive == Init /\ [][NextDrive]_vars /\ DriverFairness

\* A sixth specification: ErasedFnPointer values made from free and from
\* associated functions, copied, and called, over the owner's memory.  Here
\* gen0 / gen hold the owner's memory and the pointers made, out the values
\* the calls returned, and log one entry per call.
Null == "null"
Unit == <<>>
\* the functions of the tests: the free closure |x| x, Test::f, and the
\* closure |x, param| *x = Some(param)
FreeFns == {"identity"}
AssociatedFns == {"Test::f", "store"}
\* the owner's contexts, by address: two Test structs and an Option
TestContexts == {"test", "test2"}
OptionContexts == {"x"}
Contexts == TestContexts \cup OptionContexts
\* the S of fn(&mut S, T) -> Ret
ContextsOf(fp) == IF fp = "Test::f" THEN TestContexts ELSE OptionContexts

\* fp(param) for a free function
ApplyFree(fp, param) ==
    CASE fp = "identity" -> param

\* fp(self, param) for an associated function: self afterwards and the value
\* returned
ApplyAssociated(fp, self, param) ==
    CASE fp = "Test::f" -> [ret |-> self.x + param, self |-> self]
      [] fp = "store" -> [ret |-> Unit, self |-> Some(param)]

from_associated(struct_pointer, fp) == [fp |-> fp, struct_pointer |-> struct_pointer]

from_free(fp) == [fp |-> fp, struct_pointer |-> Null]

clone(self) == self

\* faulty variant: the function is applied to a copy of the context
call_OnCopy(self, heap, param) ==
    IF self.struct_pointer = Null
    THEN [heap |-> heap, ret |-> ApplyFree(self.fp, param)]
    ELSE [heap |-> heap,
          ret |-> ApplyAssociated(self.fp, heap[self.struct_pointer], param).ret]

\* ErasedFnPointer::call over the owner's memory: the memory afterwards and
\* the value returned
call(self, heap, param) ==
    IF self.struct_pointer = Null
    THEN [heap |-> heap, ret |-> ApplyFree(self.fp, param)]
    ELSE LET r == ApplyAssociated(self.fp, heap[self.struct_pointer], param)
         IN  [heap |-> [heap EXCEPT ![self.struct_pointer] = r.self], ret |-> r.ret]

Memories ==
    {[heap |-> [a \in Contexts |-> IF a = "test" THEN [x |-> v]
                                   ELSE IF a = "test2" THEN [x |-> w] ELSE None],
      made |-> <<>>, ptrs |-> <<>>, t |-> "memory"] : v \in 0..MaxParam, w \in 0..MaxParam}

InitErased ==
    /\ gen0 \in Memories
    /\ gen = gen0
    /\ out = <<>>
    /\ log = <<>>

\* A pointer is made: ptrs holds it, and made how it was made.
DoFromFree(fp) ==
    /\ Len(gen.ptrs) < MaxPtrs
    /\ gen' = [gen EXCEPT
                  !.made = Append(@, [by |-> "from_free", copy |-> FALSE,
                                      ctx |-> Null, fp |-> fp]),
                  !.ptrs = Append(@, from_free(fp))]
    /\ UNCHANGED <<gen0, out, log>>

DoFromAssociated(ctx, fp) ==
    /\ ctx \in ContextsOf(fp)
    /\ Len(gen.ptrs) < MaxPtrs
    /\ gen' = [gen EXCEPT
                  !.made = Append(@, [by |-> "from_associated", copy |-> FALSE,
                                      ctx |-> ctx, fp |-> fp]),
                  !.ptrs = Append(@, from_associated(ctx, fp))]
    /\ UNCHANGED <<gen0, out, log>>

\* a copy of pointer i
DoClone(i) ==
    /\ i \in 1..Len(gen.ptrs)
    /\ Len(gen.ptrs) < MaxPtrs
    /\ gen' = [gen EXCEPT
                  !.made = Append(@, [gen.made[i] EXCEPT !.copy = TRUE]),
                  !.ptrs = Append(@, clone(gen.ptrs[i]))]
    /\ UNCHANGED <<gen0, out, log>>

\* pointer i is called with param
DoCall(i, param) ==
    /\ i \in 1..Len(gen.ptrs)
    /\ Len(log) < MaxPtrCalls
    /\ LET r == call(gen.ptrs[i], gen.heap, param)
       IN  /\ gen' = [gen EXCEPT !.heap = r.heap]
           /\ out' = Append(out, r.ret)
           /\ log' = Append(log, [param |-> param, pre |-> gen, ptr |-> i,
                                  ret |-> r.ret])
    /\ UNCHANGED gen0

NextErased ==
    \/ \E fp \in FreeFns : DoFromFree(fp)
    \/ \E fp \in AssociatedFns, ctx \in Contexts : DoFromAssociated(ctx, fp)
    \/ \E i \in 1..MaxPtrs : DoClone(i)
    \/ \E i \in 1..MaxPtrs, param \in 1..MaxParam : DoCall(i, param)

SpecErased == InitErased /\ [][NextErased]_vars

\* ---------------------------------------------------------------- claims
Runs == 1..Len(log)
\* the pipeline as run call i left it
After(i) == IF i < Len(log) THEN log[i + 1].pre ELSE gen
Min(a, b) == IF a < b THEN a ELSE b
Prefix(s, n) == SubSeq(s, 1, Min(n, Len(s)))
Suffix(s, n) == IF n >= Len(s) THEN <<>> ELSE SubSeq(s, n + 1, Len(s))
IsPrefix(p, s) == Len(p) <= Len(s) /\ p = SubSeq(s, 1, Len(p))

\* a generator built from slice sources only (no StoppingGen in it)
RECURSIVE OverSlices(_)
OverSlices(g) ==
    CASE g.t = "slice" -> TRUE
      [] g.t = "stopping" -> FALSE
      [] g.t \in {"take", "cloned", "boxed", "map", "filter_map"} -> OverSlices(g.source)
      [] g.t \in {"skip", "filter"} -> OverSlices(g.generator)
      [] g.t = "chain" -> OverSlices(g.first) /\ OverSlices(g.second)
      [] g.t = "zip" -> OverSlices(g.left) /\ OverSlices(g.right)
      [] g.t = "flatten" -> OverSlices(g.source)

C2_NoCallAfterStop == \A i \in Runs : log[i].late = 0

\* C3: a run call in which the consumer answered Stop returns Stopped.
C3_StopGivesStopped == \A i \in Runs : log[i].stopAt # 0 => log[i].res = Stopped

\* the slice under a SliceGenerator, or under Cloned or BoxedGenerator of one
SliceOf(g) == IF g.t = "slice" THEN g ELSE g.source
IsSliceLike(g) ==
    g.t = "slice" \/ (g.t \in {"cloned", "boxed"} /\ g.source.t = "slice")

\* C4: for a SliceGenerator over S (also under Cloned or BoxedGenerator), a
\* first run whose consumer stops on the k-th value delivers S[0..k], returns
\* Stopped and leaves the cursor at k; a second run whose consumer never stops
\* delivers S[k..] and returns Complete, and both outputs together are S.
C4_NoLossResumability ==
    IsSliceLike(gen0) =>
        LET S == SliceOf(gen0).slice IN
        /\ \A k \in 1..Len(S) :
              (Len(log) >= 1 /\ log[1].stopAt = k) =>
                  /\ log[1].got = Prefix(S, k)
                  /\ log[1].res = Stopped
                  /\ SliceOf(After(1)).index = k
                  /\ (Len(log) >= 2 /\ log[2].stopAt = 0) =>
                        /\ log[2].got = Suffix(S, k)
                        /\ log[2].res = Complete
                        /\ log[1].got \o log[2].got = S

\* C4's case: a cloned slice of three values, stopped on the second value and
\* then resumed with a consumer that never stops.
C4_Witness ==
    /\ gen0.t = "cloned" /\ Len(gen0.source.slice) = 3
    /\ Len(log) = 2
    /\ log[1].stopAt = 2 /\ log[2].stopAt = 0
    /\ log[2].got = <<3>>

IsTakeOfSlice(g) == g.t = "take" /\ g.source.t = "slice"

\* C5: one run of Take(SliceGenerator(S), n) with a consumer that never stops
\* delivers the first min(n, len(S)) elements of S and returns Complete.
C5_TakeSingleRun ==
    (IsTakeOfSlice(gen0) /\ Len(log) >= 1 /\ log[1].stopAt = 0) =>
        /\ log[1].got = Prefix(gen0.source.slice, gen0.amount_left)
        /\ log[1].res = Complete

\* C5's case: take(2) of a slice of three values, run once without a stop.
C5_Witness ==
    /\ IsTakeOfSlice(gen0) /\ gen0.amount_left = 2 /\ Len(gen0.source.slice) = 3
    /\ Len(log) = 1 /\ log[1].stopAt = 0
    /\ log[1].got = <<1, 2>> /\ log[1].res = Complete

\* the data under a source (a SliceGenerator or a StoppingGen) and the number
\* of its values the source has handed to its sink so far: a StoppingGen's
\* buffered value has left the slice but has not been handed on
IsSource(g) == g.t \in {"slice", "stopping"}
DataOf(src) == IF src.t = "slice" THEN src.slice ELSE src.data.slice
Handed(src) ==
    IF src.t = "slice" THEN src.index
    ELSE src.data.index - (IF src.stopped_data.some THEN 1 ELSE 0)

\* C6: for Take(source, n) under any sequence of run calls and consumer stops,
\* the values delivered so far are a prefix of the first min(n, len(S)) source
\* values, and are all of them once Complete has been returned; a run in which
\* the consumer stopped with budget remaining returns Stopped; amount_left is
\* n minus the number of values delivered, unless the source has completed
\* (then it is 0).
C6_TakeBudgetPersists ==
    (gen0.t = "take" /\ IsSource(gen0.source)) =>
        LET n == gen0.amount_left
            want == Prefix(DataOf(gen0.source), n)
        IN  /\ IsPrefix(out, want)
            /\ Completed # {} => out = want
            /\ \A i \in Runs :
                  (log[i].stopAt # 0 /\ After(i).amount_left > 0) =>
                      log[i].res = Stopped
            /\ \/ gen.amount_left = n - Len(out)
               \/ /\ gen.amount_left = 0
                  /\ Completed # {}
                  /\ Handed(gen.source) = Len(DataOf(gen.source))

\* C6's case: take(2) of a slice of three values, stopped by the consumer on
\* the first value with budget remaining, then run to Complete.
C6_Witness ==
    /\ IsTakeOfSlice(gen0) /\ gen0.amount_left = 2 /\ Len(gen0.source.slice) = 3
    /\ Len(log) = 2
    /\ log[1].stopAt = 1 /\ log[1].res = Stopped /\ log[2].pre.amount_left = 1
    /\ log[2].res = Complete /\ out = <<1, 2>>

\* C7: a run call on a Take whose remaining budget is zero returns Complete,
\* does not invoke the consumer and does not run the source (the whole Take,
\* its source's cursor and run count included, is left as it was).
C7_TakeZeroBudget ==
    gen0.t = "take" =>
        \A i \in Runs :
            log[i].pre.amount_left = 0 =>
                /\ log[i].res = Complete
                /\ log[i].got = <<>>
                /\ After(i) = log[i].pre

\* C7's case: a Take whose budget was used up by deliveries, over a slice that
\* still has values, has been run again.
C7_Witness ==
    /\ IsTakeOfSlice(gen0) /\ gen0.amount_left > 0
    /\ \E i \in Runs :
          /\ log[i].pre.amount_left = 0
          /\ log[i].pre.source.index < Len(log[i].pre.source.slice)

IsSkipOfSlice(g) == g.t = "skip" /\ g.generator.t = "slice"

\* C8: one run of Skip(SliceGenerator(S), n) with a consumer that never stops
\* delivers S[n..] (nothing when n >= len(S)) and returns Complete.
C8_SkipSingleRun ==
    (IsSkipOfSlice(gen0) /\ Len(log) >= 1 /\ log[1].stopAt = 0) =>
        /\ log[1].got = Suffix(gen0.generator.slice, gen0.amount)
        /\ log[1].res = Complete

\* C8's case: skip(2) of a slice of three values, run once without a stop.
C8_Witness ==
    /\ IsSkipOfSlice(gen0) /\ gen0.amount = 2 /\ Len(gen0.generator.slice) = 3
    /\ Len(log) = 1 /\ log[1].stopAt = 0
    /\ log[1].got = <<3>> /\ log[1].res = Complete

\* C9: Skip(source, n) gives the consumer nothing while its budget is above
\* zero; a run that ends with budget remaining and the source not exhausted
\* (the source paused on its own) returns Stopped, and has reduced the budget by the number of source values it
\* discarded; over all runs the budget is n minus the values discarded, and
\* what the consumer has been given is what the source handed on after its
\* first n values.
C9_SkipBudget ==
    (gen0.t = "skip" /\ IsSource(gen0.generator)) =>
        LET n == gen0.amount
            S == DataOf(gen0.generator)
            h == Handed(gen.generator)
        IN  /\ gen.amount > 0 => out = <<>>
            /\ \A i \in Runs :
                  (After(i).amount > 0 /\ Handed(After(i).generator) < Len(S)) =>
                      log[i].res = Stopped
            /\ \A i \in Runs :
                  (log[i].res = Stopped /\ After(i).amount > 0) =>
                      /\ log[i].got = <<>>
                      /\ log[i].pre.amount - After(i).amount
                            = Handed(After(i).generator) - Handed(log[i].pre.generator)
            /\ gen.amount = n - Min(n, h)
            /\ out = (IF h > n THEN SubSeq(S, n + 1, h) ELSE <<>>)

\* C9's case: skip(2) of a StoppingGen that pauses on its own after one value:
\* the first run returns Stopped with one value discarded and a budget of 1,
\* and later runs discard the second value and deliver the third.
C9_Witness ==
    /\ gen0.t = "skip" /\ gen0.generator.t = "stopping" /\ gen0.amount = 2
    /\ Len(log) >= 2
    /\ log[1].res = Stopped /\ log[2].pre.amount = 1
    /\ Handed(log[2].pre.generator) = 1
    /\ out = <<3>>

IsChainOfSlices(g) == g.t = "chain" /\ g.first.t = "slice" /\ g.second.t = "slice"

\* C10: for Chain(A, B) over slices, under any consumer stops and resumed runs,
\* the values delivered are a prefix of A followed by B, and all of them once
\* Complete has been returned; a run stopped inside A leaves first active and
\* second untouched, and the next run starts with A's next element; a run
\* returns Complete only with first inactive and second run to its end.
C10_Chain ==
    IsChainOfSlices(gen0) =>
        LET A == gen0.first.slice
            B == gen0.second.slice
        IN  /\ IsPrefix(out, A \o B)
            /\ Completed # {} => out = A \o B
            /\ \A i \in Runs :
                  /\ log[i].res = Complete =>
                        /\ ~After(i).first_active
                        /\ After(i).second.nrun >= 1
                        /\ After(i).second.index = Len(B)
                  /\ (log[i].res = Stopped /\ After(i).first.index < Len(A)) =>
                        /\ After(i).first_active
                        /\ After(i).second = gen0.second
                        /\ i < Len(log) =>
                              /\ log[i + 1].got # <<>>
                              /\ log[i + 1].got[1] = A[After(i).first.index + 1]

\* C10's case: a chain of slices stopped on A's first value, resumed, and run
\* to Complete with A and B delivered.
C10_Witness ==
    /\ IsChainOfSlices(gen0)
    /\ Len(gen0.first.slice) = 3 /\ Len(gen0.second.slice) = 2
    /\ Len(log) >= 2
    /\ log[1].stopAt = 1 /\ log[1].res = Stopped
    /\ log[Len(log)].res = Complete
    /\ out = <<1, 2, 3, 11, 12>>

\* whether a chain's first generator has nothing left to give: a slice at its
\* end, a Take without budget
FirstExhausted(f) ==
    IF f.t = "slice" THEN f.index = Len(f.slice) ELSE f.amount_left = 0

\* C11: in Chain, second is not run while first is active (it is as built, with
\* no run call made on it); first_active is cleared only with first exhausted;
\* once first_active is cleared, no run call touches first (its cursor, budget
\* and run count stay) and first_active stays cleared.
C11_ChainSwitch ==
    gen0.t = "chain" =>
        /\ gen.first_active => gen.second = gen0.second
        /\ ~gen.first_active => FirstExhausted(gen.first)
        /\ \A i \in Runs :
              ~log[i].pre.first_active =>
                  /\ After(i).first = log[i].pre.first
                  /\ ~After(i).first_active

\* C11's case: a chain whose first run went through first and was stopped in
\* second, and which was then run again with first inactive.
C11_Witness ==
    /\ IsChainOfSlices(gen0) /\ Len(gen0.first.slice) >= 1
    /\ Len(log) >= 2
    /\ log[1].res = Stopped /\ ~log[2].pre.first_active
    /\ log[2].pre.second.index = 1
    /\ log[2].got # <<>>

IsZipOfSlices(g) == g.t = "zip" /\ g.left.t = "slice" /\ g.right.t = "slice"

\* the standard zip of two sequences
ZipSeq(a, b) == [i \in 1..Min(Len(a), Len(b)) |-> <<a[i], b[i]>>]

\* C12: the first run of Zip(SliceGenerator(A), SliceGenerator(B)) in which the
\* consumer never answers Stop delivers the pairs (A[i], B[i]) up to the
\* shorter length, in order, and returns Complete, whichever side is shorter.
C12_ZipSingleRun ==
    (IsZipOfSlices(gen0) /\ Len(log) >= 1 /\ log[1].stopAt = 0) =>
        /\ log[1].got = ZipSeq(gen0.left.slice, gen0.right.slice)
        /\ log[1].res = Complete

\* C12's case: the right side is the shorter one and not empty
C12_Witness ==
    /\ IsZipOfSlices(gen0) /\ Len(log) >= 1 /\ log[1].stopAt = 0
    /\ Len(gen0.left.slice) > Len(gen0.right.slice)
    /\ Len(gen0.right.slice) >= 1
    /\ Len(log[1].got) = Len(gen0.right.slice)

\* the two other cases of C12: left shorter, same length
C12_LeftShorter ==
    /\ IsZipOfSlices(gen0) /\ Len(log) >= 1 /\ log[1].stopAt = 0
    /\ 1 <= Len(gen0.left.slice) /\ Len(gen0.left.slice) < Len(gen0.right.slice)
    /\ Len(log[1].got) = Len(gen0.left.slice)

C12_SameLength ==
    /\ IsZipOfSlices(gen0) /\ Len(log) >= 1 /\ log[1].stopAt = 0
    /\ Len(gen0.left.slice) = MaxLen /\ Len(gen0.right.slice) = MaxLen
    /\ Len(log[1].got) = MaxLen

IsZipOfSources(g) == g.t = "zip" /\ IsSource(g.left) /\ IsSource(g.right)

\* C13: for Zip over two sources (the right one possibly a StoppingGen that
\* pauses on its own without giving a value), under any run calls, the k-th
\* pair delivered is (k-th value of left, k-th value of right): no left value
\* is lost and the pairing stays aligned.
C13_ZipAligned ==
    IsZipOfSources(gen0) =>
        \A k \in 1..Len(out) :
            /\ k <= Len(DataOf(gen0.left)) /\ k <= Len(DataOf(gen0.right))
            /\ out[k] = <<DataOf(gen0.left)[k], DataOf(gen0.right)[k]>>

\* the part of C13 on partial pairs: every value delivered is a pair of a left
\* value and a right value
C13_PairsOnly ==
    IsZipOfSources(gen0) =>
        \A k \in 1..Len(out) :
            /\ Len(out[k]) = 2
            /\ \E i \in 1..Len(DataOf(gen0.left)) : out[k][1] = DataOf(gen0.left)[i]
            /\ \E j \in 1..Len(DataOf(gen0.right)) : out[k][2] = DataOf(gen0.right)[j]

\* C14: between the run calls on a Zip over two sources (also after it has
\* returned Complete), the values pulled from left and the values pulled from
\* right each exceed the pairs delivered by at most one.
C14_ZipOneAhead ==
    IsZipOfSources(gen0) =>
        /\ Handed(gen.left) - Len(out) <= 1
        /\ Handed(gen.right) - Len(out) <= 1

\* the same bound on the right side alone
C14_RightOneAhead ==
    IsZipOfSources(gen0) => Handed(gen.right) - Len(out) <= 1

IsFlatten(g) == g.t = "flatten" /\ g.source.t = "map" /\ IsSource(g.source.source)

\* the slice of slices under a Flatten, and its concatenation
OuterOf(g) == g.source.source
RECURSIVE Concat(_)
Concat(ss) == IF ss = <<>> THEN <<>> ELSE Head(ss) \o Concat(Tail(ss))

\* C15: for Flatten over the slices of S, the outer source a slice or a
\* StoppingGen pausing anywhere, under any consumer stops: the values delivered
\* so far are a prefix of the concatenation of S, and are exactly the
\* concatenation, each element once, when Complete has been returned.
C15_FlattenConcat ==
    IsFlatten(gen0) =>
        LET all == Concat(DataOf(OuterOf(gen0))) IN
        /\ IsPrefix(out, all)
        /\ Completed # {} => out = all

\* C15's case: the outer source paused on its own, the consumer stopped inside
\* an inner slice, and the runs went on to Complete
C15_Witness ==
    /\ IsFlatten(gen0) /\ OuterOf(gen0).t = "stopping"
    /\ Len(out) >= 3
    /\ Completed # {}
    /\ \E i \in Runs : log[i].res = Stopped /\ log[i].stopAt = 0
    /\ \E i \in Runs : log[i].res = Stopped /\ log[i].stopAt # 0
                          /\ After(i).current_generator.some
                          /\ After(i).current_generator.v.index
                                < Len(After(i).current_generator.v.slice)

\* what the inner generator held by a Flatten still has to give
InnerRest(g) ==
    IF g.current_generator.some
    THEN Suffix(g.current_generator.v.slice, g.current_generator.v.index)
    ELSE <<>>

\* C16: in Flatten, (1) the outer source has handed over its h-th slice only
\* when all elements of the h-1 slices before it have been delivered; (2) a
\* run in which the consumer stopped leaves the inner generator in
\* current_generator, its cursor just after the value the consumer stopped on;
\* (3) a run that starts with an inner generator held delivers that
\* generator's remaining elements first; (4) if the consumer stops within
\* them, the outer source is left exactly as it was (cursor, buffered value,
\* pause counter, run count).
C16_FlattenResume ==
    IsFlatten(gen0) =>
        /\ LET h == Handed(OuterOf(gen))
           IN  h >= 1 => Len(out) >= Len(Concat(Prefix(DataOf(OuterOf(gen0)), h - 1)))
        /\ \A i \in Runs :
              LET pre == log[i].pre
                  rest == InnerRest(pre)
                  post == After(i)
              IN  /\ log[i].stopAt # 0 =>
                        /\ post.current_generator.some
                        /\ post.current_generator.v.index >= 1
                        /\ post.current_generator.v.slice[post.current_generator.v.index]
                              = log[i].got[log[i].stopAt]
                  /\ IsPrefix(rest, log[i].got) \/ IsPrefix(log[i].got, rest)
                  /\ (log[i].stopAt # 0 /\ log[i].stopAt <= Len(rest)) =>
                        /\ post.source = pre.source
                        /\ post.current_generator.v.slice = pre.current_generator.v.slice
                        /\ post.current_generator.v.index
                              = pre.current_generator.v.index + log[i].stopAt

\* C16's case: a run stopped by the consumer inside an inner slice with more
\* than one element left, the next run stopped again inside the same slice,
\* with a further slice waiting in the outer source
C16_Witness ==
    /\ IsFlatten(gen0) /\ Len(log) >= 2
    /\ log[1].stopAt # 0
    /\ Len(InnerRest(log[2].pre)) >= 1
    /\ log[2].stopAt # 0 /\ log[2].stopAt <= Len(InnerRest(log[2].pre))
    /\ Handed(OuterOf(log[2].pre)) < Len(DataOf(OuterOf(gen0)))
    /\ Len(log[2].got) >= 1

IsElementwise(g) ==
    \/ g.t \in {"map", "filter_map", "cloned"} /\ IsSource(g.source)
    \/ g.t = "filter" /\ IsSource(g.generator)

\* the standard filter_map of a sequence
RECURSIVE FilterMapSeq(_, _)
FilterMapSeq(f, s) ==
    IF s = <<>> THEN <<>>
    ELSE LET y == OptTransform(f, Head(s))
         IN  (IF y.some THEN <<y.v>> ELSE <<>>) \o FilterMapSeq(f, Tail(s))

\* what the standard iterator adaptor gives for the data under g
Standard(g) ==
    CASE g.t = "map" ->
             [i \in 1..Len(DataOf(g.source)) |-> Transform(g.transform, DataOf(g.source)[i])]
      [] g.t = "filter" ->
             LET Keep(x) == Predicate(g.predicate, x)
             IN  SelectSeq(DataOf(g.generator), Keep)
      [] g.t = "filter_map" -> FilterMapSeq(g.transform, DataOf(g.source))
      [] g.t = "cloned" -> DataOf(g.source)

\* C17: for Filter, Map, FilterMap and Cloned over a source, under any
\* consumer stops and resumed runs, the values delivered so far are a prefix
\* of the standard filter, map, filter_map or copy of the data, and are all of
\* it once Complete has been returned.
C17_Elementwise ==
    IsElementwise(gen0) =>
        /\ IsPrefix(out, Standard(gen0))
        /\ Completed # {} => out = Standard(gen0)

\* C17's case: a Map over a full slice, stopped by the consumer and resumed to
\* Complete
C17_Witness ==
    /\ gen0.t = "map" /\ Len(DataOf(gen0.source)) = MaxLen
    /\ Len(log) >= 2 /\ log[1].stopAt # 0 /\ log[1].res = Stopped
    /\ Completed # {}
    /\ Len(out) = MaxLen

\* further cases of C17: Filter and FilterMap with values dropped, Cloned
C17_FilterCase ==
    /\ gen0.t = "filter" /\ Len(DataOf(gen0.generator)) = MaxLen
    /\ Len(log) >= 2 /\ log[1].stopAt # 0 /\ Completed # {}
    /\ Len(out) >= 2

C17_FilterMapCase ==
    /\ gen0.t = "filter_map" /\ Len(DataOf(gen0.source)) = MaxLen
    /\ Len(log) >= 2 /\ log[1].stopAt # 0 /\ Completed # {}
    /\ Len(out) >= 2

C17_ClonedCase ==
    /\ gen0.t = "cloned" /\ Len(DataOf(gen0.source)) = MaxLen
    /\ Len(log) >= 2 /\ log[1].stopAt # 0 /\ Completed # {}
    /\ Len(out) = MaxLen

IsFiltering(g) ==
    \/ g.t = "filter" /\ IsSource(g.generator)
    \/ g.t = "filter_map" /\ IsSource(g.source)

\* the source under a Filter or a FilterMap
FilteredSource(g) == IF g.t = "filter" THEN g.generator ELSE g.source

\* what a Filter or FilterMap passes on for x, None for a rejected x
Passed(g, x) ==
    IF g.t = "filter"
    THEN (IF Predicate(g.predicate, x) THEN Some(x) ELSE None)
    ELSE OptTransform(g.transform, x)

\* whether the source paused on its own in run call i: a slice never does, a
\* StoppingGen does when its counter is 0 at the start of the run or reaches 0
\* in it (the value is then buffered)
SourcePaused(i) ==
    LET pre == FilteredSource(log[i].pre)
        post == FilteredSource(After(i))
    IN  pre.t = "stopping" /\ (pre.stop_at = 0 \/ post.stopped_data.some)

\* C18: for Filter and FilterMap over a source, under any run calls: (1) a run
\* returns Stopped only if the consumer answered Stop or the source paused on
\* its own; (2) a run in which neither happened went through the whole
\* source, rejected values included; (3) when the consumer answered Stop, the
\* last value pulled from the source is the accepted one it stopped on; (4)
\* every value the consumer was given is an accepted one.
C18_RejectedDoesNotStop ==
    IsFiltering(gen0) =>
        /\ \A i \in Runs :
              LET post == FilteredSource(After(i))
              IN  /\ log[i].res = Stopped => (log[i].stopAt # 0 \/ SourcePaused(i))
                  /\ (log[i].stopAt = 0 /\ ~SourcePaused(i)) =>
                        /\ log[i].res = Complete
                        /\ Handed(post) = Len(DataOf(post))
                  /\ log[i].stopAt # 0 =>
                        /\ Handed(post) >= 1
                        /\ Passed(gen0, DataOf(post)[Handed(post)])
                              = Some(log[i].got[log[i].stopAt])
        /\ \A k \in 1..Len(out) :
              \E j \in 1..Len(DataOf(FilteredSource(gen0))) :
                  Passed(gen0, DataOf(FilteredSource(gen0))[j]) = Some(out[k])

\* C18's case: a Filter whose run went over a rejected value, delivered the
\* accepted one after it and was stopped there by the consumer
C18_Witness ==
    /\ gen0.t = "filter" /\ gen0.generator.t = "slice" /\ Len(log) >= 1
    /\ Len(gen0.generator.slice) >= 2
    /\ Passed(gen0, gen0.generator.slice[1]) = None
    /\ log[1].stopAt = 1 /\ log[1].res = Stopped
    /\ After(1).generator.index = 2

\* a further case of C18: a FilterMap run that ends on rejected values and
\* returns Complete
C18_TrailingRejected ==
    /\ gen0.t = "filter_map" /\ gen0.source.t = "slice" /\ Len(log) >= 1
    /\ Len(gen0.source.slice) = MaxLen
    /\ Passed(gen0, gen0.source.slice[MaxLen]) = None
    /\ log[1].stopAt = 0 /\ log[1].res = Complete /\ Len(log[1].got) >= 1

\* the try_advance calls made so far
Advances == {i \in Runs : "count" \in DOMAIN log[i]}

\* the values a generator still has to give: what a run with a consumer that
\* never stops would deliver
Remaining(g) == Run(g, Consumer([at |-> 0, sticky |-> FALSE])).sink.got

RECURSIVE HasTake(_)
HasTake(g) ==
    CASE g.t \in {"slice", "stopping"} -> FALSE
      [] g.t = "take" -> TRUE
      [] g.t \in {"cloned", "boxed", "map", "filter_map", "flatten"} -> HasTake(g.source)
      [] g.t \in {"skip", "filter"} -> HasTake(g.generator)
      [] g.t = "chain" -> HasTake(g.first) \/ HasTake(g.second)
      [] g.t = "zip" -> HasTake(g.left) \/ HasTake(g.right)

\* what C19 says of try_advance call i
AdvanceAsStated(i) ==
    LET R == Remaining(log[i].pre)
        r == Len(R)
        n == log[i].n
    IN  /\ log[i].res # Panic
        /\ log[i].count <= n
        /\ r >= n => /\ log[i].count = n
                     /\ log[i].res = Stopped
                     /\ Remaining(After(i)) = Suffix(R, n)
        /\ r < n => /\ log[i].count = r
                    /\ log[i].res = Complete
                    /\ Remaining(After(i)) = <<>>

\* C19: try_advance(n) on a generator over slice sources with r values
\* remaining: for r >= n it returns (n, Stopped) and what remains afterwards
\* starts with the (n+1)-th remaining value; for r < n it returns
\* (r, Complete) and nothing remains; the count never exceeds n.
C19_TryAdvance ==
    OverSlices(gen0) => \A i \in Advances : AdvanceAsStated(i)

\* the same for the generators that have no Take in them
C19_TryAdvanceWithoutTake ==
    (OverSlices(gen0) /\ ~HasTake(gen0)) => \A i \in Advances : AdvanceAsStated(i)

\* the case of C19's example: a slice with more values left than asked for
C19_SliceCase ==
    /\ gen0.t = "slice" /\ Len(gen0.slice) = MaxLen
    /\ Len(log) >= 2 /\ 1 \in Advances /\ log[1].n = 2
    /\ log[1].count = 2 /\ log[1].res = Stopped
    /\ log[2].got = <<gen0.slice[MaxLen]>>

\* a try_advance call whose closure was called again after it had answered
\* Stop, taking amount_left below 0
C19_Overflow == Panicked

\* the state a pipeline owns: the generator without the run counts kept for
\* the slices, which are not part of the program's state
RECURSIVE Owned(_)
Owned(g) ==
    CASE g.t = "slice" -> [g EXCEPT !.nrun = 0]
      [] g.t = "stopping" -> [g EXCEPT !.data = Owned(@)]
      [] g.t \in {"take", "cloned", "boxed", "map", "filter_map"} ->
             [g EXCEPT !.source = Owned(@)]
      [] g.t \in {"skip", "filter"} -> [g EXCEPT !.generator = Owned(@)]
      [] g.t = "chain" -> [g EXCEPT !.first = Owned(@), !.second = Owned(@)]
      [] g.t = "zip" -> [g EXCEPT !.left = Owned(@), !.right = Owned(@)]
      [] g.t = "flatten" ->
             [g EXCEPT !.source = Owned(@),
                       !.current_generator =
                           IF @.some THEN Some(Owned(@.v)) ELSE None]

\* the run calls made after a run call has returned Complete
AfterComplete == {i \in Runs : \E j \in Completed : j < i}

\* C20: a run call made on a pipeline that has returned Complete leaves every
\* cursor, budget, flag and held inner generator of the pipeline as it was.
C20_NoEffectAfterComplete ==
    \A i \in AfterComplete : Owned(After(i)) = Owned(log[i].pre)

\* the same for the pipelines other than Zip
C20_NoEffectUnlessZip ==
    gen0.t # "zip" => \A i \in AfterComplete : Owned(After(i)) = Owned(log[i].pre)

\* ------------------------------------------------------- sum and product
\* the sum and the product of a sequence of integers, folded from the right
RECURSIVE MathSum(_), MathProduct(_)
MathSum(s) == IF s = <<>> THEN 0 ELSE Head(s) + MathSum(Tail(s))
MathProduct(s) == IF s = <<>> THEN 1 ELSE Head(s) * MathProduct(Tail(s))
MathFold(op, s) == IF op = "sum" THEN MathSum(s) ELSE MathProduct(s)

\* whether every running total of a sequence, from the left, is a value of
\* the kind
RECURSIVE Fits(_, _, _, _)
Fits(op, kind, acc, s) ==
    IF s = <<>> THEN TRUE
    ELSE LET v == IF op = "sum" THEN acc + Head(s) ELSE acc * Head(s)
         IN  InRange(kind, v) /\ Fits(op, kind, v, Tail(s))
FitsKind(op, kind, s) == Fits(op, kind, IF op = "sum" THEN 0 ELSE 1, s)

\* the sum and product calls made so far, and those of the plain kind on a
\* generator that does not pause on its own
Accums == {i \in Runs : "ret" \in DOMAIN log[i]}
PlainAccums == {i \in Accums : log[i].kind = "i8" /\ log[i].pre.t # "stopping"}

\* C21 as stated: sum and product of a plain integer kind, over a by-value or
\* by-reference generator of a sequence S taken from its start, return the
\* sum and the product of S (0 and 1 for the empty one).
C21_SumProductAsStated ==
    \A i \in PlainAccums :
        log[i].pre = gen0 =>
            /\ log[i].res # Panic
            /\ log[i].ret = MathFold(log[i].op, AccData(gen0))

\* C21: the same, for the sequences whose running totals all are values of
\* the integer kind.
C21_SumProduct ==
    \A i \in PlainAccums :
        (log[i].pre = gen0 /\ FitsKind(log[i].op, "i8", AccData(gen0))) =>
            /\ log[i].res = Complete
            /\ log[i].ret = MathFold(log[i].op, AccData(gen0))

\* C21's case: the sum of [1, 2, 3, 4] over a by-reference generator is 10
C21_Witness ==
    /\ gen0.t = "slice" /\ gen0.slice = <<1, 2, 3, 4>>
    /\ 1 \in PlainAccums /\ log[1].op = "sum" /\ log[1].ret = 10

\* further cases of C21: the product of [2, 3, 4] over a by-value generator
\* is 24; an empty generator gives sum 0 and product 1
C21_ProductCase ==
    /\ gen0.t = "cloned" /\ gen0.source.slice = <<2, 3, 4>>
    /\ 1 \in PlainAccums /\ log[1].op = "product" /\ log[1].ret = 24

C21_EmptySum ==
    /\ AccData(gen0) = <<>> /\ 1 \in PlainAccums
    /\ log[1].op = "sum" /\ log[1].ret = 0

C21_EmptyProduct ==
    /\ AccData(gen0) = <<>> /\ 1 \in PlainAccums
    /\ log[1].op = "product" /\ log[1].ret = 1

\* the sum and the product of a sequence reduced modulo 2^Width, folded from
\* the right and reduced at every step (the residue is that of the sum and
\* of the product)
RECURSIVE ModSum(_), ModProduct(_)
ModSum(s) == IF s = <<>> THEN 0 ELSE (Head(s) + ModSum(Tail(s))) % Modulus
ModProduct(s) == IF s = <<>> THEN 1 % Modulus ELSE (Head(s) * ModProduct(Tail(s))) % Modulus

WrappingAccums == {i \in Accums : log[i].kind = "wrapping" /\ log[i].pre.t # "stopping"}

\* C22: for the Wrapping kind of width Width, sum and product over a
\* generator of a sequence S return the sum and the product of S reduced
\* modulo 2^Width (Wrapping(0) and Wrapping(1) for the empty one), and never
\* panic.
C22_WrappingSumProduct ==
    \A i \in WrappingAccums :
        log[i].pre = gen0 =>
            /\ log[i].res = Complete
            /\ log[i].ret = (IF log[i].op = "sum" THEN ModSum(AccData(gen0))
                             ELSE ModProduct(AccData(gen0)))
            /\ (Len(AccData(gen0)) <= 3) =>
                   log[i].ret = MathFold(log[i].op, AccData(gen0)) % Modulus

\* C22's case: the sum of [Wrapping(MAX), Wrapping(1)] is Wrapping(0)
C22_Witness ==
    /\ AccData(gen0) = <<Modulus - 1, 1>>
    /\ 1 \in WrappingAccums /\ log[1].op = "sum" /\ log[1].ret = 0

\* a further case of C22: a product that wraps
C22_ProductCase ==
    /\ AccData(gen0) = <<Modulus - 1, Modulus - 1, 3>>
    /\ 1 \in WrappingAccums /\ log[1].op = "product" /\ log[1].ret = 3

\* the slice generator at the bottom of a generator of AccPipelines
AccSource(g) ==
    IF g.t = "slice" THEN g ELSE IF g.t = "cloned" THEN g.source ELSE g.data

\* what one run call with a consumer that never stops does to a generator
OneRun(g) == Run(g, Consumer([at |-> 0, sticky |-> FALSE]))

\* C28: sum and product run the generator once and drop the result of the
\* run: (1) the call leaves the generator as one run call leaves it, having
\* been given the values one run call delivers; (2) the source under it has
\* been run at most once more; (3) the Wrapping result is the fold of those
\* values; (4) for a StoppingGen that pauses on its own after k values, the
\* result covers the first k values only, the generator is left paused with
\* the value it paused on buffered, and the values after it are still to come.
C28_AccumSingleRun ==
    \A i \in Accums :
        log[i].res # Panic =>
            LET pre == log[i].pre
                post == After(i)
                one == OneRun(pre)
                S == AccData(gen0)
            IN  /\ post = one.gen
                /\ log[i].res = one.res
                /\ log[i].got = one.sink.got
                /\ AccSource(post).nrun <= AccSource(pre).nrun + 1
                /\ pre.t # "stopping" => AccSource(post).nrun = AccSource(pre).nrun + 1
                /\ log[i].kind = "wrapping" =>
                       log[i].ret = (IF log[i].op = "sum" THEN ModSum(log[i].got)
                                     ELSE ModProduct(log[i].got))
                /\ (pre = gen0 /\ gen0.t = "stopping" /\ gen0.stop_at < Len(S)) =>
                       /\ log[i].res = Stopped
                       /\ log[i].got = Prefix(S, gen0.stop_at)
                       /\ Remaining(post) = Suffix(S, gen0.stop_at)
                       /\ gen0.stop_at >= 1 =>
                              post.stopped_data = Some(S[gen0.stop_at + 1])

\* C28's case: a sum over a StoppingGen that pauses after its first value,
\* with more values behind it
C28_Witness ==
    /\ gen0.t = "stopping" /\ gen0.stop_at = 1 /\ Len(AccData(gen0)) >= 3
    /\ 1 \in Accums /\ log[1].op = "sum" /\ log[1].kind = "wrapping"
    /\ log[1].res = Stopped
    /\ log[1].ret = AccData(gen0)[1]
    /\ gen.stopped_data.some

\* ------------------------------------------------- both-ended consumption
Reverse(s) == [i \in 1..Len(s) |-> s[Len(s) + 1 - i]]
\* the calls made from the back (run_back, try_advance_back)
BackCalls == {i \in Runs : "back" \in DOMAIN log[i]}
\* the elements of s from position a + 1 to position b
Between(s, a, b) == IF a >= b THEN <<>> ELSE SubSeq(s, a + 1, b)

\* C23: for the two-cursor slice source under any interleaving of forward
\* and backward calls: the cursors stay ordered within the slice; a forward
\* run delivers the elements from the front cursor upward, in ascending
\* order, and moves only the front cursor past them; a backward run delivers
\* the elements below the back cursor in descending order and moves only the
\* back cursor; so no element is delivered twice; a call returns Complete
\* only with the cursors met, and once they have met every call in either
\* direction returns Complete, delivers nothing and changes nothing.
C23_Bidirectional ==
    gen0.t = "bislice" =>
        LET S == gen0.slice IN
        /\ 0 <= gen.index /\ gen.index <= gen.back /\ gen.back <= Len(S)
        /\ \A a, b \in 1..Len(out) : a # b => out[a] # out[b]
        /\ \A i \in Runs :
              LET pre == log[i].pre
                  post == After(i)
                  discarded == IF "count" \in DOMAIN log[i] THEN log[i].count ELSE 0
              IN  /\ i \notin BackCalls =>
                        /\ post.back = pre.back
                        /\ post.index = pre.index + Len(log[i].got) + discarded
                        /\ log[i].got = Between(S, pre.index, pre.index + Len(log[i].got))
                  /\ i \in BackCalls =>
                        /\ post.index = pre.index
                        /\ post.back = pre.back - Len(log[i].got) - discarded
                        /\ log[i].got
                              = Reverse(Between(S, pre.back - Len(log[i].got), pre.back))
                  /\ log[i].res = Complete => post.index = post.back
                  /\ pre.index = pre.back =>
                        log[i].res = Complete /\ log[i].got = <<>> /\ post = pre
        /\ Completed # {} =>
              Len(out) + gen.index + (Len(S) - gen.back) >= Len(S)

\* C23's case, the example on a slice of three: next gives the first
\* element, next_back the last, next the second, and then both directions
\* return Complete
C23_Witness ==
    /\ gen0.t = "bislice" /\ Len(gen0.slice) = 3 /\ Len(log) = 5
    /\ BackCalls = {2, 5}
    /\ out = <<gen0.slice[1], gen0.slice[3], gen0.slice[2]>>
    /\ \A i \in 1..3 : log[i].res = Stopped /\ Len(log[i].got) = 1
    /\ log[4].res = Complete /\ log[5].res = Complete

\* ------------------------------------------------------------------ Either
\* the generator an Either holds
Populated(e) == IF e.variant = "Left" THEN e.left ELSE e.right

\* whether call i on an Either is what the same call on the generator it
\* holds gives: the same values to the consumer, the same answers from it,
\* the same result (and count), and the generator held left as that call
\* leaves it
SameAsPopulated(i) ==
    LET e == log[i]
        g == Populated(e.pre)
        g1 == Populated(After(i))
        back == "back" \in DOMAIN e
    IN  IF "count" \in DOMAIN e
        THEN LET r == IF back THEN TryAdvanceBackOf(g, e.n) ELSE TryAdvanceOf(g, e.n)
             IN  e.count = r.count /\ e.res = r.res /\ g1 = r.gen
        ELSE \E plan \in Plans :
                 LET r == IF back THEN RunBack(g, Consumer(plan))
                          ELSE Run(g, Consumer(plan))
                 IN  /\ e.got = r.sink.got /\ e.stopAt = r.sink.stopAt
                     /\ e.late = r.sink.late
                     /\ e.res = r.res /\ g1 = r.gen

\* C29: an Either under any run, try_advance, run_back and try_advance_back
\* calls: it stays the variant it was built as and holds nothing but that
\* variant's generator, and every call does what the same call on that
\* generator does and returns its result unchanged.
C29_EitherDelegates ==
    gen0.t = "either" =>
        /\ gen.t = "either" /\ gen.variant = gen0.variant
        /\ DOMAIN gen = DOMAIN gen0
        /\ \A i \in Runs : log[i].res # Panic => SameAsPopulated(i)

\* C29's case: a Right over a two-cursor source that has been advanced from
\* the front and from the back, run forward and stopped, and run backward
C29_Witness ==
    /\ gen0.t = "either" /\ gen0.variant = "Right" /\ gen0.right.t = "bislice"
    /\ Len(gen0.right.slice) = 3 /\ Len(log) = 4
    /\ "count" \in DOMAIN log[1] /\ log[1].count = 1 /\ 1 \notin BackCalls
    /\ "count" \in DOMAIN log[2] /\ log[2].count = 1 /\ 2 \in BackCalls
    /\ 3 \notin BackCalls /\ log[3].got = <<gen0.right.slice[2]>>
    /\ log[3].res = Stopped
    /\ 4 \in BackCalls /\ log[4].res = Complete
    /\ gen.right.index = gen.right.back

\* a further case of C29: a Left over a single-cursor slice
C29_LeftCase ==
    /\ gen0.t = "either" /\ gen0.variant = "Left" /\ gen0.left.t = "slice"
    /\ Len(log) >= 2 /\ log[1].res = Stopped /\ log[2].res = Complete
    /\ Len(out) = MaxLen

\* ---------------------------------------------------------- BoxedGenerator
\* C24: for BoxedGenerator(g), g a slice or a StoppingGen, under any run calls
\* and consumer stops: every run call gives the consumer the values, and
\* returns the result, that the same run call on g gives, and leaves g as
\* that call leaves it; a boxed slice has been run once per run call.
C24_BoxedEquivalent ==
    gen0.t = "boxed" =>
        /\ gen.t = "boxed"
        /\ \A i \in Runs :
              \E plan \in Plans :
                  LET r == Run(log[i].pre.source, Consumer(plan))
                  IN  /\ log[i].got = r.sink.got /\ log[i].stopAt = r.sink.stopAt
                      /\ log[i].late = r.sink.late
                      /\ log[i].res = r.res
                      /\ After(i).source = r.gen
        /\ gen0.source.t = "slice" => gen.source.nrun = Len(log)

\* C24's case: a boxed slice stopped by the consumer, resumed to Complete and
\* run again
C24_Witness ==
    /\ gen0.t = "boxed" /\ gen0.source.t = "slice" /\ Len(gen0.source.slice) = MaxLen
    /\ Len(log) = 3
    /\ log[1].stopAt = 2 /\ log[1].res = Stopped
    /\ log[2].res = Complete /\ Len(log[2].got) = MaxLen - 2
    /\ log[3].res = Complete /\ log[3].got = <<>>
    /\ gen.source.nrun = 3

\* ---------------------------------------------------------- SliceGenerator
\* whether every SliceGenerator a pipeline holds has its index within its
\* slice
RECURSIVE IndexWithin(_)
IndexWithin(g) ==
    CASE g.t = "slice" -> 0 <= g.index /\ g.index <= Len(g.slice)
      [] g.t = "stopping" -> IndexWithin(g.data)
      [] g.t \in {"take", "cloned", "boxed", "map", "filter_map"} -> IndexWithin(g.source)
      [] g.t \in {"skip", "filter"} -> IndexWithin(g.generator)
      [] g.t = "chain" -> IndexWithin(g.first) /\ IndexWithin(g.second)
      [] g.t = "zip" -> IndexWithin(g.left) /\ IndexWithin(g.right)
      [] g.t = "flatten" ->
             /\ IndexWithin(g.source)
             /\ g.current_generator.some => IndexWithin(g.current_generator.v)

\* C25: every SliceGenerator of every pipeline keeps 0 <= index <= len(slice);
\* a run call on a SliceGenerator delivers the elements at the indices from
\* the index it starts with on (so each access is below len(slice)), and the
\* index has advanced by one per element delivered, the one the consumer
\* answered Stop for included.
C25_SliceIndex ==
    /\ IndexWithin(gen)
    /\ gen0.t = "slice" =>
          \A i \in Runs :
              LET pre == log[i].pre
                  post == After(i)
              IN  /\ post.index = pre.index + Len(log[i].got)
                  /\ post.index <= Len(gen0.slice)
                  /\ log[i].got = Between(gen0.slice, pre.index, post.index)
                  /\ post.slice = pre.slice

\* C25's case: a slice of MaxLen elements whose consumer answered Stop for
\* the last one, with the index at len(slice), then run again
C25_Witness ==
    /\ gen0.t = "slice" /\ Len(gen0.slice) = MaxLen /\ Len(log) = 2
    /\ log[1].stopAt = MaxLen /\ log[1].res = Stopped
    /\ log[2].pre.index = MaxLen
    /\ log[2].res = Complete /\ log[2].got = <<>>

\* ------------------------------------------------------------- termination
\* the work a pipeline has left: one for each element a slice still has, one
\* for a pause a StoppingGen still has to make, one for a value it has
\* buffered; for the outer source of a Flatten an element counts with the
\* elements of the slice it is
RECURSIVE SumLens(_), Measure(_), NestedMeasure(_)
SumLens(ss) == IF ss = <<>> THEN 0 ELSE 1 + Len(Head(ss)) + SumLens(Tail(ss))

NestedMeasure(src) ==
    IF src.t = "slice" THEN SumLens(Suffix(src.slice, src.index))
    ELSE NestedMeasure(src.data)
            + (IF src.stop_at >= 0 THEN 1 ELSE 0)
            + (IF src.stopped_data.some THEN 1 + Len(src.stopped_data.v) ELSE 0)

Measure(g) ==
    CASE g.t = "slice" -> Len(g.slice) - g.index
      [] g.t = "stopping" ->
             Measure(g.data) + (IF g.stop_at >= 0 THEN 1 ELSE 0)
                             + (IF g.stopped_data.some THEN 1 ELSE 0)
      [] g.t \in {"take", "cloned", "boxed", "map", "filter_map"} -> Measure(g.source)
      [] g.t \in {"skip", "filter"} -> Measure(g.generator)
      [] g.t = "chain" -> Measure(g.first) + Measure(g.second)
      [] g.t = "zip" -> Measure(g.left) + Measure(g.right)
      [] g.t = "flatten" ->
             NestedMeasure(g.source.source)
                 + (IF g.current_generator.some THEN Measure(g.current_generator.v) ELSE 0)

\* every run call that returned Stopped left the pipeline with less work
StoppedRunsProgress ==
    /\ Measure(gen) >= 0
    /\ \A i \in Runs :
          log[i].res = Stopped => Measure(After(i)) < Measure(log[i].pre)

\* C26: for every pipeline over slices and StoppingGen sources, a driver that
\* calls run again whenever the previous call returned Stopped gets Complete
\* after finitely many calls, whatever the consumer answers; every run call
\* that returned Stopped has made progress.
C26_DriverTerminates == [](StoppedRunsProgress) /\ <>(Completed # {})

\* C26's case: a Flatten over a StoppingGen driven to Complete with a
\* consumer that stopped on every value
C26_Witness ==
    /\ gen0.t = "flatten" /\ OuterOf(gen0).t = "stopping"
    /\ Len(out) = MaxOuter * MaxInner
    /\ Len(log) = MaxOuter * MaxInner + 2
    /\ \A i \in 1..Len(log) - 1 : log[i].res = Stopped /\ Len(log[i].got) <= 1
    /\ log[Len(log)].res = Complete

\* C27: a Take(source, n) over a SliceGenerator or a StoppingGen, under any
\* sequence of run calls and consumer stops: the number of values its source
\* has handed over equals the number of values delivered to the consumer and
\* is at most n, and once the budget is used up the source stands exactly
\* after its min(n, len)-th value, with no value taken and held back.
C27_TakePullsAtMostN ==
    (gen0.t = "take" /\ IsSource(gen0.source)) =>
        LET n == gen0.amount_left
            len == Len(DataOf(gen0.source))
        IN  /\ Handed(gen.source) = Len(out)
            /\ Len(out) <= n
            /\ gen.amount_left = 0 =>
                  /\ Handed(gen.source) = (IF n < len THEN n ELSE len)
                  /\ gen.source.t = "stopping" => ~gen.source.stopped_data.some

\* C27's case: take(2) of a StoppingGen over three values that paused on its
\* own before the budget was used up; the Take has delivered two values, its
\* budget is zero, and it has been run once more.
C27_Witness ==
    /\ gen0.t = "take" /\ gen0.source.t = "stopping" /\ gen0.amount_left = 2
    /\ Len(DataOf(gen0.source)) = 3
    /\ \E i \in Runs : log[i].res = Stopped /\ log[i].stopAt = 0
    /\ \E i \in Runs : log[i].pre.amount_left = 0
    /\ gen.amount_left = 0 /\ Len(out) = 2 /\ Handed(gen.source) = 2

\* the owner's memory as call i left it
HeapAfter(i) == IF i < Len(log) THEN log[i + 1].pre.heap ELSE gen.heap

\* call i did what calling the function directly would have done
DispatchedAsMade(i) ==
    LET e == log[i]
        how == gen.made[e.ptr]
    IN  IF how.by = "from_free"
        THEN /\ e.ret = ApplyFree(how.fp, e.param)
             /\ HeapAfter(i) = e.pre.heap
        ELSE LET r == ApplyAssociated(how.fp, e.pre.heap[how.ctx], e.param)
             IN  /\ e.ret = r.ret
                 /\ HeapAfter(i) = [e.pre.heap EXCEPT ![how.ctx] = r.self]

\* C30: a pointer made by from_free(f) has a null context and a call of it
\* returns f(p) and leaves the owner's memory alone; a pointer made by
\* from_associated(ctx, f) has a non-null context and a call of it returns
\* f(ctx, p) and leaves in ctx, and nowhere else, what f left there; a copy
\* of a pointer is called with the same outcome as the pointer it copies.
C30_ErasedDispatch ==
    (gen0.t = "memory") =>
        /\ \A k \in 1..Len(gen.ptrs) :
              /\ gen.made[k].by = "from_free" => gen.ptrs[k].struct_pointer = Null
              /\ gen.made[k].by = "from_associated" =>
                    /\ gen.ptrs[k].struct_pointer # Null
                    /\ gen.ptrs[k].struct_pointer = gen.made[k].ctx
        /\ \A i \in Runs : DispatchedAsMade(i)

\* C30's case: a pointer made from the storing closure over the Option and a
\* copy of it; the pointer was called with 1 and then the copy with 2, and the
\* owner's Option holds Some(2).
C30_Witness ==
    /\ gen0.t = "memory" /\ Len(gen.ptrs) = 2 /\ Len(log) = 2
    /\ gen.made[1].by = "from_associated" /\ gen.made[1].fp = "store"
    /\ gen.made[2].copy
    /\ log[1].ptr = 1 /\ log[1].param = 1 /\ log[1].pre.heap["x"] = None
    /\ log[2].ptr = 2 /\ log[2].param = 2 /\ log[2].pre.heap["x"] = Some(1)
    /\ gen.heap["x"] = Some(2)

\* the same for Test::f, which reads its context, and the free closure
C30_ReadingCase ==
    /\ gen0.t = "memory" /\ Len(log) = 2
    /\ gen.made[log[1].ptr].fp = "Test::f" /\ gen.made[log[1].ptr].ctx = "test2"
    /\ log[1].ret = gen0.heap["test2"].x + log[1].param
    /\ gen.made[log[2].ptr].by = "from_free" /\ log[2].ret = log[2].param

\* the run calls in which a StoppingGen returned Stopped though the consumer
\* had not asked it to stop
OwnPauses == {i \in Runs : log[i].res = Stopped /\ log[i].stopAt = 0}

\* the number of values delivered in run calls 1..i
RECURSIVE GotThrough(_)
GotThrough(i) == IF i = 0 THEN 0 ELSE GotThrough(i - 1) + Len(log[i].got)

\* over repeated run calls a StoppingGen delivers its data in order, each
\* element once, and all of it by the time it returns Complete
DeliversData ==
    /\ IsPrefix(out, gen0.data.slice)
    /\ Completed # {} => out = gen0.data.slice

\* the value buffered at own pause i is the one after the k delivered, and
\* the next run call delivers it first
BufferedThenFirst(i) ==
    LET k == gen0.stop_at
        held == After(i).stopped_data
    IN  /\ held.some
        /\ held.v = gen0.data.slice[k + 1]
        /\ i < Len(log) => (log[i + 1].got # <<>> /\ Head(log[i + 1].got) = held.v)

\* C31 as stated: StoppingGen(k, data) delivers data in order, each element
\* once, until Complete, under any consumer stop pattern; with 0 <= k < len it
\* pauses on its own exactly once, after k elements, the element it paused at
\* is buffered in stopped_data and delivered first on the next run; with
\* k >= len it never pauses on its own.
C31_StoppingGenAsStated ==
    (gen0.t = "stopping") =>
        LET k == gen0.stop_at
            len == Len(gen0.data.slice)
        IN  /\ DeliversData
            /\ (0 <= k /\ k < len) =>
                  /\ Cardinality(OwnPauses) <= 1
                  /\ Completed # {} => Cardinality(OwnPauses) = 1
                  /\ \A i \in OwnPauses : GotThrough(i) = k /\ BufferedThenFirst(i)
            /\ k >= len => OwnPauses = {}

\* C31: the same, except that an element is buffered only when the pause
\* falls inside a run (the call began with stop_at above 0); a call that
\* begins with stop_at = 0 (k = 0, or the consumer stopped on the k-th
\* element) pauses at once with nothing pulled and nothing buffered; and with
\* k = len the generator does pause on its own, once, when len = 0 or the
\* consumer stopped on the last element.  With k = 0 the first call is the
\* pause.  With k > len or k < 0 it never pauses.
C31_StoppingGen ==
    (gen0.t = "stopping") =>
        LET k == gen0.stop_at
            len == Len(gen0.data.slice)
        IN  /\ DeliversData
            /\ Cardinality(OwnPauses) <= 1
            /\ (0 <= k /\ k < len /\ Completed # {}) => Cardinality(OwnPauses) = 1
            /\ \A i \in OwnPauses :
                  /\ 0 <= k /\ k <= len
                  /\ GotThrough(i) = k
                  /\ Handed(After(i)) = k
                  /\ IF log[i].pre.stop_at > 0
                     THEN BufferedThenFirst(i)
                     ELSE /\ log[i].got = <<>>
                          /\ ~After(i).stopped_data.some
                          /\ After(i).data = log[i].pre.data
                  /\ k = len =>
                        /\ log[i].pre.stop_at = 0
                        /\ k = 0 \/ (i > 1 /\ log[i - 1].stopAt # 0)
            /\ (k = 0 /\ log # <<>>) => OwnPauses = {1}
            /\ (k > len \/ k < 0) => OwnPauses = {}

\* C31's case: StoppingGen(1, [0, 1, 2]) paused on its own in its first run
\* with the second element buffered, and delivered it first in the second
\* run, which went on to Complete.
C31_Witness ==
    /\ gen0.t = "stopping" /\ gen0.stop_at = 1 /\ Len(gen0.data.slice) = 3
    /\ Len(log) = 2 /\ OwnPauses = {1}
    /\ Len(log[1].got) = 1
    /\ log[2].pre.stopped_data = Some(gen0.data.slice[2])
    /\ Head(log[2].got) = gen0.data.slice[2]
    /\ log[2].res = Complete /\ out = gen0.data.slice

\* further cases of C31: k = len with the consumer stopping on the last
\* element, then a pause with nothing buffered; and k = 0
C31_PauseAtEnd ==
    /\ gen0.t = "stopping" /\ gen0.stop_at = Len(gen0.data.slice)
    /\ Len(gen0.data.slice) = 2 /\ OwnPauses = {2} /\ Completed = {3}

C31_PauseAtStart ==
    /\ gen0.t = "stopping" /\ gen0.stop_at = 0 /\ Len(gen0.data.slice) = 2
    /\ Len(log) >= 2
    /\ OwnPauses = {1} /\ log[1].got = <<>> /\ ~log[2].pre.stopped_data.some
    /\ Completed # {}

====
